---- MODULE Spec2Model ----
(***************************************************************************)
(* Wallet ledger service (ports-and-adapters-architecture).                *)
(*                                                                         *)
(* The application services (WalletService, TransactionService,            *)
(* PaymentService) run over the repository ports.  Every repository call   *)
(* is atomic (the in-memory repositories take their mutex, the PostgreSQL  *)
(* ones issue one statement), so a service method is modelled as a chain   *)
(* of steps, one per repository call, each step carrying the local         *)
(* computation that follows the call up to the next one.  A repository     *)
(* call may return an error (the ports return `error`), in which case the  *)
(* store is left as it was.                                                *)
(***************************************************************************)
EXTENDS Integers, Sequences, FiniteSets, TLC

\* ------------------------------------------------------------------ bounds
NWallets == 2
MaxInitBalance == 2
MaxAmount == 2
MaxTx == 2
MaxFaults == 1
MaxWallets == 4
MaxTime == 60
TickMinutes == 30

\* TransactionService.ReconcileFailedTransactions: the staleness threshold.
ReconcileMinutes == 30

Procs == {1, 2}
SeqProcs == {1}

WalletIDs == 1..NWallets
WalletInputs == 1..(NWallets + 1)
AmountInputs == 0..MaxAmount
Currencies == {"USD", "IDR"}
WalletStatuses == {"ACTIVE", "INACTIVE"}
TxStatuses == {"PENDING", "COMPLETED", "FAILED"}
TxInputs == 1..(MaxTx + 1)
PaymentInputs == 1..(MaxTx + 1)
LifecycleAmounts == {1}
ConcAmounts == 1..MaxAmount
ValidationAmounts == (0 - 1)..1
TxTypes == {"DEPOSIT", "WITHDRAWAL", "TRANSFER"}

VARIABLES
    wallets,        \* InMemoryWalletRepository.wallets: id -> Wallet
    transactions,   \* InMemoryTransactionRepository.transactions: id -> Transaction
    txNextID,       \* InMemoryTransactionRepository.nextID
    payments,       \* PaymentRepository: id -> Payment
    payNextID,      \* the id the payment store assigns next
    walletNextID,   \* InMemoryWalletRepository.nextID
    cache,          \* RedisCache: kind -> id -> entry with its expiry
    now,            \* time.Now(), in minutes
    call,           \* per request task: the running (or last returned) service call
    consumer,       \* KafkaEventConsumer: its fields and the calls made on it
    faults          \* repository calls that have returned an error so far

vars ==
    <<wallets, transactions, txNextID, payments, payNextID, walletNextID, cache, now, call,
      consumer, faults>>

\* ------------------------------------------------------------------ domain
NoWallet == [ID |-> 0, UserID |-> 0, Balance |-> 0, CurrencyCode |-> "", Status |-> ""]
NoTx ==
    [ID |-> 0, WalletID |-> 0, Type |-> "", Amount |-> 0, Status |-> "",
     ToWalletID |-> 0, CreatedAt |-> 0]
NoPayment ==
    [ID |-> 0, TransactionID |-> 0, Amount |-> 0, Provider |-> "", Status |-> "",
     ExternalID |-> ""]

\* domain.NewWallet
NewWallet(userID, currencyCode) ==
    [ID |-> 0, UserID |-> userID, Balance |-> 0, CurrencyCode |-> currencyCode,
     Status |-> "ACTIVE"]

\* An IsActive that accepts every wallet.
IsActiveAlways(w) == w.Status = w.Status

\* Wallet.IsActive
IsActive(w) == w.Status = "ACTIVE"

\* Wallet.Credit: note the balance check copied from Debit.
Credit(w, amount) ==
    IF amount <= 0 THEN [wallet |-> w, err |-> "ErrInvalidAmount"]
    ELSE IF w.Status # "ACTIVE" THEN [wallet |-> w, err |-> "ErrWalletNotActive"]
    ELSE IF w.Balance < amount THEN [wallet |-> w, err |-> "ErrInsufficientBalance"]
    ELSE [wallet |-> [w EXCEPT !.Balance = @ + amount], err |-> "nil"]

\* A Debit that lacks the balance guard.
DebitNoBalanceCheck(w, amount) ==
    IF amount <= 0 THEN [wallet |-> w, err |-> "ErrInvalidAmount"]
    ELSE IF w.Status # "ACTIVE" THEN [wallet |-> w, err |-> "ErrWalletNotActive"]
    ELSE [wallet |-> [w EXCEPT !.Balance = @ - amount], err |-> "nil"]

\* A Debit that adds the amount.
DebitAddsAmount(w, amount) ==
    IF amount <= 0 THEN [wallet |-> w, err |-> "ErrInvalidAmount"]
    ELSE IF w.Status # "ACTIVE" THEN [wallet |-> w, err |-> "ErrWalletNotActive"]
    ELSE IF w.Balance < amount THEN [wallet |-> w, err |-> "ErrInsufficientBalance"]
    ELSE [wallet |-> [w EXCEPT !.Balance = @ + amount], err |-> "nil"]

\* Wallet.Debit
Debit(w, amount) ==
    IF amount <= 0 THEN [wallet |-> w, err |-> "ErrInvalidAmount"]
    ELSE IF w.Status # "ACTIVE" THEN [wallet |-> w, err |-> "ErrWalletNotActive"]
    ELSE IF w.Balance < amount THEN [wallet |-> w, err |-> "ErrInsufficientBalance"]
    ELSE [wallet |-> [w EXCEPT !.Balance = @ - amount], err |-> "nil"]

\* domain.NewTransaction: Status is left at its zero value; the services set
\* PENDING before persisting.
NewTransaction(walletID, txType, amount) ==
    [ID |-> 0, WalletID |-> walletID, Type |-> txType, Amount |-> amount,
     Status |-> "", ToWalletID |-> 0, CreatedAt |-> now]

\* domain.NewTransferTransaction
NewTransferTransaction(fromWalletID, toWalletID, amount) ==
    [ID |-> 0, WalletID |-> fromWalletID, Type |-> "TRANSFER", Amount |-> amount,
     Status |-> "PENDING", ToWalletID |-> toWalletID, CreatedAt |-> now]

\* A Fail that leaves the status as it is.
FailKeepsStatus(t) == t

\* Transaction.Complete / Transaction.Fail: unconditional assignments.
Complete(t) == [t EXCEPT !.Status = "COMPLETED"]
Fail(t) == [t EXCEPT !.Status = "FAILED"]

\* ------------------------------------------------------------ repositories
\* WalletRepository.FindByID: a copy of the stored wallet, or nil.
WalletFindByID(id) == IF id \in DOMAIN wallets THEN wallets[id] ELSE NoWallet

\* WalletRepository.Save: a wallet without id gets nextID; the whole record
\* (balance and status) replaces the stored one.
WalletSaveID(w) == IF w.ID = 0 THEN walletNextID ELSE w.ID
WalletSave(w) ==
    LET id == WalletSaveID(w) IN
    [x \in (DOMAIN wallets) \cup {id} |->
        IF x = id THEN [w EXCEPT !.ID = id] ELSE wallets[x]]
WalletSaveNextID(w) == IF w.ID = 0 THEN walletNextID + 1 ELSE walletNextID

\* WalletRepository.FindByUserID: copies of the wallets of one user.
WalletFindByUserID(userID) ==
    {wallets[id] : id \in {x \in DOMAIN wallets : wallets[x].UserID = userID}}

\* UserRepository.FindByID: the users are the owners of the initial wallets;
\* no modelled operation adds or removes a user.
UserIDs == 1..NWallets
UserInputs == 1..(NWallets + 1)
UserExists(userID) == userID \in UserIDs

\* TransactionRepository.FindByID
TxFindByID(id) == IF id \in DOMAIN transactions THEN transactions[id] ELSE NoTx

\* TransactionRepository.Create: assigns nextID when the id is 0.
TxCreateID(t) == IF t.ID = 0 THEN txNextID ELSE t.ID
TxCreate(t) ==
    LET id == TxCreateID(t) IN
    [x \in (DOMAIN transactions) \cup {id} |->
        IF x = id THEN [t EXCEPT !.ID = id] ELSE transactions[x]]
TxCreateNextID(t) == IF t.ID = 0 THEN txNextID + 1 ELSE txNextID

\* TransactionRepository.Update: replaces the stored record; an error when the
\* id is not stored.
TxUpdateOK(t) == t.ID \in DOMAIN transactions
TxUpdate(t) ==
    IF TxUpdateOK(t) THEN [transactions EXCEPT ![t.ID] = t] ELSE transactions

\* TransactionRepository.UpdateStatus: sets the status whatever it was; an
\* error when the id is not stored.
TxUpdateStatusOK(id) == id \in DOMAIN transactions
\* An UpdateStatus that reports success and stores nothing.
TxUpdateStatusDropped(id, status) == transactions
TxUpdateStatus(id, status) ==
    IF TxUpdateStatusOK(id) THEN [transactions EXCEPT ![id].Status = status]
    ELSE transactions


\* A scan with the comparison inverted: the PENDING transactions created
\* after olderThan.
FindPendingTransactionsYoung(olderThan) ==
    {id \in DOMAIN transactions :
        /\ transactions[id].Status = "PENDING"
        /\ transactions[id].CreatedAt > olderThan}
\* A scan that also returns the transactions created exactly at olderThan.
FindPendingTransactionsInclusive(olderThan) ==
    {id \in DOMAIN transactions :
        /\ transactions[id].Status = "PENDING"
        /\ transactions[id].CreatedAt <= olderThan}
\* TransactionRepository.FindPendingTransactions(olderThan): PENDING and
\* CreatedAt.Before(olderThan).
FindPendingTransactions(olderThan) ==
    {id \in DOMAIN transactions :
        /\ transactions[id].Status = "PENDING"
        /\ transactions[id].CreatedAt < olderThan}

\* WalletRepository.UpdateStatus: sets the status field only.
WalletUpdateStatusOK(id) == id \in DOMAIN wallets
WalletUpdateStatus(id, status) ==
    IF WalletUpdateStatusOK(id) THEN [wallets EXCEPT ![id].Status = status]
    ELSE wallets

\* PaymentRepository.FindByID / Create / Update
PaymentFindByID(id) == IF id \in DOMAIN payments THEN payments[id] ELSE NoPayment
PaymentCreate(pm) ==
    [x \in (DOMAIN payments) \cup {payNextID} |->
        IF x = payNextID THEN [pm EXCEPT !.ID = payNextID] ELSE payments[x]]
PaymentUpdateOK(pm) == pm.ID \in DOMAIN payments
PaymentUpdate(pm) ==
    IF PaymentUpdateOK(pm) THEN [payments EXCEPT ![pm.ID] = pm] ELSE payments

\* A repository call either succeeds or returns an error; at most MaxFaults
\* calls of a run return an error.
StoreOutcomes == IF faults < MaxFaults THEN {TRUE, FALSE} ELSE {TRUE}
Charge(ok) == IF ok THEN faults ELSE faults + 1

\* ------------------------------------------------------------------- cache
\* RedisCache, keyed "wallet:<id>" and "transaction:<id>". An entry lives for
\* CacheMinutes and is gone after that.
CacheMinutes == 5
NoCache == [wallet |-> <<>>, transaction |-> <<>>]

\* Cache.GetObject: a hit gives the stored copy.
CacheHit(kind, id) == id \in DOMAIN cache[kind]
CacheGet(kind, id) == cache[kind][id].value

\* Cache.SetObject(key, obj, 5 * time.Minute)
CacheSet(kind, id, obj) ==
    LET old == cache[kind] IN
    [cache EXCEPT ![kind] =
        [k \in (DOMAIN old) \cup {id} |->
            IF k = id THEN [value |-> obj, expires |-> now + CacheMinutes] ELSE old[k]]]

\* Cache.Delete(key)
CacheDelete(kind, id) ==
    LET old == cache[kind] IN
    [cache EXCEPT ![kind] = [k \in (DOMAIN old) \ {id} |-> old[k]]]

\* The entries still alive at time t.
CacheExpire(t) ==
    [kind \in DOMAIN cache |->
        [k \in {x \in DOMAIN cache[kind] : cache[kind][x].expires > t} |-> cache[kind][k]]]
\* ---------------------------------------------------------- event consumer
\* The topics PaymentEventProcessor subscribes to.
Topics == {"wallets", "payments"}

\* A Start call of one task: where it is, whether its consumer context is
\* done, and the topic goroutines it has started that are still running.
NoRun == [pc |-> "idle", done |-> FALSE, workers |-> {}]

\* NewKafkaEventConsumer: no handler, no reader, not running, cancel nil
\* (0), the mutex free (0); last is what each task's latest call on the
\* consumer returned.
NewKafkaEventConsumer ==
    [isRunning |-> FALSE, handlers |-> {}, readers |-> {}, cancel |-> 0, mu |-> 0,
     run |-> [p \in Procs |-> NoRun],
     last |-> [p \in Procs |-> [op |-> "none", err |-> "nil", running |-> FALSE]]]

\* What a call returns, with the value of isRunning it found.
Returns(c, p, op, err) ==
    [c EXCEPT !.last[p] = [op |-> op, err |-> err, running |-> consumer.isRunning]]

\* The other stored variables, which no consumer call touches.
LedgerVars ==
    <<wallets, transactions, txNextID, payments, payNextID, walletNextID, cache, now, call,
      faults>>
\* ------------------------------------------------------------------- calls
Snapshot ==
    [wallets |-> wallets, transactions |-> transactions, payments |-> payments,
     now |-> now]
NoSnapshot == [wallets |-> <<>>, transactions |-> <<>>, payments |-> <<>>, now |-> 0]

Idle ==
    [op |-> "none", pc |-> "idle", user |-> 0, currency |-> "", w |-> 0, to |-> 0, amt |-> 0,
     status |-> "", wallet |-> NoWallet, toWallet |-> NoWallet, tx |-> NoTx,
     payment |-> NoPayment, pending |-> {}, nfailed |-> 0, err |-> "nil",
     before |-> NoSnapshot, failed |-> {}, gateway |-> "",
     limit |-> 0, offset |-> 0, found |-> {}, count |-> 0, hit |-> FALSE]

NewCall(op, w, to, amt) ==
    [Idle EXCEPT !.op = op, !.pc = "begin", !.w = w, !.to = to, !.amt = amt,
                 !.before = Snapshot]

Ret(c, e) == [c EXCEPT !.pc = "done", !.err = e]
Failed(c, label) == [c EXCEPT !.failed = @ \cup {label}]
Free(p) == call[p].pc = "idle"
At(p, op, pc) == call[p].op = op /\ call[p].pc = pc

\* The transaction a call returns: nil together with an error.
Result(c) == IF c.err = "nil" THEN c.tx ELSE NoTx

\* Calls that will still create a transaction record.
PreCreate == {"create", "findTo", "createTx"}
TxRoom ==
    Cardinality(DOMAIN transactions)
        + Cardinality({q \in Procs : call[q].pc \in PreCreate}) < MaxTx

TypeOK ==
    /\ \A id \in DOMAIN wallets : wallets[id].ID = id
    /\ \A id \in DOMAIN transactions : transactions[id].ID = id
    /\ faults \in 0..MaxFaults

\* -------------------------------------------------------------------- Init
Init ==
    /\ \E b \in [WalletIDs -> 0..MaxInitBalance], cur \in Currencies,
          st \in [WalletIDs -> WalletStatuses] :
         wallets = [id \in WalletIDs |->
                      [ID |-> id, UserID |-> id, Balance |-> b[id],
                       CurrencyCode |-> IF id = 1 THEN "USD" ELSE cur,
                       Status |-> st[id]]]
    /\ transactions = <<>>
    /\ txNextID = 1
    /\ payments = <<>>
    /\ payNextID = 1
    /\ now = 0
    /\ call = [p \in Procs |-> Idle]
    /\ faults = 0
    /\ walletNextID = NWallets + 1
    /\ cache = NoCache
    /\ consumer = NewKafkaEventConsumer

\* ----------------------------------------------------- WalletService.Deposit
Deposit_Begin(p, walletID, amount) ==
    /\ Free(p) /\ TxRoom
    /\ LET c == NewCall("Deposit", walletID, 0, amount) IN
       IF amount <= 0
       THEN /\ call' = [call EXCEPT ![p] = Ret(c, "ErrInvalidAmount")]
            /\ UNCHANGED faults
       ELSE \E ok \in StoreOutcomes :
            LET wallet == WalletFindByID(walletID) IN
            /\ faults' = Charge(ok)
            /\ call' = [call EXCEPT ![p] =
                 IF ~ok THEN Ret(Failed(c, "find"), "StoreError")
                 ELSE IF wallet = NoWallet THEN Ret(c, "ErrWalletNotFound")
                 ELSE IF ~IsActive(wallet) THEN Ret(c, "ErrWalletNotActive")
                 ELSE [c EXCEPT !.pc = "create", !.wallet = wallet]]
    /\ UNCHANGED <<wallets, transactions, txNextID, payments, payNextID, now>>
    /\ UNCHANGED walletNextID
    /\ UNCHANGED cache
    /\ UNCHANGED consumer

Deposit_Create(p) ==
    /\ At(p, "Deposit", "create")
    /\ \E ok \in StoreOutcomes :
       LET c == call[p]
           t == [NewTransaction(c.w, "DEPOSIT", c.amt) EXCEPT !.Status = "PENDING"]
           tx == [t EXCEPT !.ID = TxCreateID(t)]
           cr == Credit(c.wallet, c.amt)
       IN
       /\ faults' = Charge(ok)
       /\ IF ~ok
          THEN /\ call' = [call EXCEPT ![p] = Ret(Failed(c, "create"), "StoreError")]
               /\ UNCHANGED <<transactions, txNextID, payments, payNextID, now>>
          ELSE /\ transactions' = TxCreate(t)
               /\ txNextID' = TxCreateNextID(t)
               /\ call' = [call EXCEPT ![p] =
                    IF cr.err # "nil"
                    THEN [c EXCEPT !.tx = Fail(tx), !.pc = "creditFailed", !.err = cr.err]
                    ELSE [c EXCEPT !.tx = tx, !.wallet = cr.wallet, !.pc = "save"]]
    /\ UNCHANGED <<wallets, payments, payNextID, now>>
    /\ UNCHANGED walletNextID
    /\ UNCHANGED cache
    /\ UNCHANGED consumer

\* The credit failed: the transaction is marked FAILED, and the method goes on.
Deposit_CreditFailed(p) ==
    /\ At(p, "Deposit", "creditFailed")
    /\ \E ok \in StoreOutcomes :
       LET c == call[p] IN
       /\ faults' = Charge(ok)
       /\ transactions' = IF ok THEN TxUpdate(c.tx) ELSE transactions
       /\ call' = [call EXCEPT ![p] =
            [(IF ok THEN c ELSE Failed(c, "update")) EXCEPT !.pc = "save"]]
    /\ UNCHANGED <<wallets, txNextID, payments, payNextID, now>>
    /\ UNCHANGED walletNextID
    /\ UNCHANGED cache
    /\ UNCHANGED consumer

Deposit_Save(p) ==
    /\ At(p, "Deposit", "save")
    /\ \E ok \in StoreOutcomes :
       LET c == call[p] IN
       /\ faults' = Charge(ok)
       /\ IF ~ok
          THEN /\ call' = [call EXCEPT ![p] =
                    [Failed(c, "save") EXCEPT !.tx = Fail(c.tx), !.pc = "markFailed",
                                              !.err = "StoreError"]]
               /\ UNCHANGED <<wallets, payments, payNextID, now>>
          ELSE /\ wallets' = WalletSave(c.wallet)
               /\ call' = [call EXCEPT ![p] =
                    [c EXCEPT !.tx = Complete(c.tx), !.pc = "markCompleted", !.err = "nil"]]
    /\ UNCHANGED <<transactions, txNextID, payments, payNextID, now>>
    /\ UNCHANGED walletNextID
    /\ UNCHANGED cache
    /\ UNCHANGED consumer

Deposit_MarkFailed(p) ==
    /\ At(p, "Deposit", "markFailed")
    /\ \E ok \in StoreOutcomes :
       LET c == call[p] IN
       /\ faults' = Charge(ok)
       /\ transactions' = IF ok THEN TxUpdate(c.tx) ELSE transactions
       /\ call' = [call EXCEPT ![p] =
            Ret(IF ok THEN c ELSE Failed(c, "update"), c.err)]
    /\ UNCHANGED <<wallets, txNextID, payments, payNextID, now>>
    /\ UNCHANGED walletNextID
    /\ UNCHANGED cache
    /\ UNCHANGED consumer

Deposit_MarkCompleted(p) ==
    /\ At(p, "Deposit", "markCompleted")
    /\ \E ok \in StoreOutcomes :
       LET c == call[p] IN
       /\ faults' = Charge(ok)
       /\ cache' = IF ok /\ TxUpdateOK(c.tx) THEN CacheDelete("wallet", c.w) ELSE cache
       /\ transactions' = IF ok THEN TxUpdate(c.tx) ELSE transactions
       /\ call' = [call EXCEPT ![p] =
            IF ok /\ TxUpdateOK(c.tx) THEN Ret(c, "nil")
            ELSE Ret(Failed(c, "update"), "StoreError")]
    /\ UNCHANGED <<wallets, txNextID, payments, payNextID, now>>
    /\ UNCHANGED walletNextID
    /\ UNCHANGED consumer

\* ---------------------------------------------------- WalletService.Withdraw
\* A Withdraw that does not compare the balance with the amount up front.
Withdraw_BeginNoBalanceCheck(p, walletID, amount) ==
    /\ Free(p) /\ TxRoom
    /\ LET c == NewCall("Withdraw", walletID, 0, amount) IN
       IF amount <= 0
       THEN /\ call' = [call EXCEPT ![p] = Ret(c, "ErrInvalidAmount")]
            /\ UNCHANGED faults
       ELSE \E ok \in StoreOutcomes :
            LET wallet == WalletFindByID(walletID) IN
            /\ faults' = Charge(ok)
            /\ call' = [call EXCEPT ![p] =
                 IF ~ok THEN Ret(Failed(c, "find"), "StoreError")
                 ELSE IF wallet = NoWallet THEN Ret(c, "ErrWalletNotFound")
                 ELSE [c EXCEPT !.pc = "create", !.wallet = wallet]]
    /\ UNCHANGED <<wallets, transactions, txNextID, payments, payNextID, now>>
    /\ UNCHANGED walletNextID
    /\ UNCHANGED cache
    /\ UNCHANGED consumer

Withdraw_Begin(p, walletID, amount) ==
    /\ Free(p) /\ TxRoom
    /\ LET c == NewCall("Withdraw", walletID, 0, amount) IN
       IF amount <= 0
       THEN /\ call' = [call EXCEPT ![p] = Ret(c, "ErrInvalidAmount")]
            /\ UNCHANGED faults
       ELSE \E ok \in StoreOutcomes :
            LET wallet == WalletFindByID(walletID) IN
            /\ faults' = Charge(ok)
            /\ call' = [call EXCEPT ![p] =
                 IF ~ok THEN Ret(Failed(c, "find"), "StoreError")
                 ELSE IF wallet = NoWallet THEN Ret(c, "ErrWalletNotFound")
                 ELSE IF wallet.Balance < amount THEN Ret(c, "ErrInsufficientBalance")
                 ELSE [c EXCEPT !.pc = "create", !.wallet = wallet]]
    /\ UNCHANGED <<wallets, transactions, txNextID, payments, payNextID, now>>
    /\ UNCHANGED walletNextID
    /\ UNCHANGED cache
    /\ UNCHANGED consumer

Withdraw_Create(p) ==
    /\ At(p, "Withdraw", "create")
    /\ \E ok \in StoreOutcomes :
       LET c == call[p]
           t == [NewTransaction(c.w, "WITHDRAWAL", c.amt) EXCEPT !.Status = "PENDING"]
           tx == [t EXCEPT !.ID = TxCreateID(t)]
           db == Debit(c.wallet, c.amt)
       IN
       /\ faults' = Charge(ok)
       /\ IF ~ok
          THEN /\ call' = [call EXCEPT ![p] = Ret(Failed(c, "create"), "StoreError")]
               /\ UNCHANGED <<transactions, txNextID, payments, payNextID, now>>
          ELSE /\ transactions' = TxCreate(t)
               /\ txNextID' = TxCreateNextID(t)
               /\ call' = [call EXCEPT ![p] =
                    IF db.err # "nil"
                    THEN [c EXCEPT !.tx = Fail(tx), !.pc = "markFailed", !.err = db.err]
                    ELSE [c EXCEPT !.tx = tx, !.wallet = db.wallet, !.pc = "save"]]
    /\ UNCHANGED <<wallets, payments, payNextID, now>>
    /\ UNCHANGED walletNextID
    /\ UNCHANGED cache
    /\ UNCHANGED consumer

Withdraw_Save(p) ==
    /\ At(p, "Withdraw", "save")
    /\ \E ok \in StoreOutcomes :
       LET c == call[p] IN
       /\ faults' = Charge(ok)
       /\ IF ~ok
          THEN /\ call' = [call EXCEPT ![p] =
                    [Failed(c, "save") EXCEPT !.tx = Fail(c.tx), !.pc = "markFailed",
                                              !.err = "StoreError"]]
               /\ UNCHANGED <<wallets, payments, payNextID, now>>
          ELSE /\ wallets' = WalletSave(c.wallet)
               /\ call' = [call EXCEPT ![p] =
                    [c EXCEPT !.tx = Complete(c.tx), !.pc = "markCompleted"]]
    /\ UNCHANGED <<transactions, txNextID, payments, payNextID, now>>
    /\ UNCHANGED walletNextID
    /\ UNCHANGED cache
    /\ UNCHANGED consumer

Withdraw_MarkFailed(p) ==
    /\ At(p, "Withdraw", "markFailed")
    /\ \E ok \in StoreOutcomes :
       LET c == call[p] IN
       /\ faults' = Charge(ok)
       /\ transactions' = IF ok THEN TxUpdate(c.tx) ELSE transactions
       /\ call' = [call EXCEPT ![p] =
            Ret(IF ok THEN c ELSE Failed(c, "update"), c.err)]
    /\ UNCHANGED <<wallets, txNextID, payments, payNextID, now>>
    /\ UNCHANGED walletNextID
    /\ UNCHANGED cache
    /\ UNCHANGED consumer

Withdraw_MarkCompleted(p) ==
    /\ At(p, "Withdraw", "markCompleted")
    /\ \E ok \in StoreOutcomes :
       LET c == call[p] IN
       /\ faults' = Charge(ok)
       /\ cache' = IF ok /\ TxUpdateOK(c.tx) THEN CacheDelete("wallet", c.w) ELSE cache
       /\ transactions' = IF ok THEN TxUpdate(c.tx) ELSE transactions
       /\ call' = [call EXCEPT ![p] =
            IF ok /\ TxUpdateOK(c.tx) THEN Ret(c, "nil")
            ELSE Ret(Failed(c, "update"), "StoreError")]
    /\ UNCHANGED <<wallets, txNextID, payments, payNextID, now>>
    /\ UNCHANGED walletNextID
    /\ UNCHANGED consumer

\* ---------------------------------------------------- WalletService.Transfer
Transfer_Begin(p, fromWalletID, toWalletID, amount) ==
    /\ Free(p) /\ TxRoom
    /\ LET c == NewCall("Transfer", fromWalletID, toWalletID, amount) IN
       IF amount <= 0
       THEN /\ call' = [call EXCEPT ![p] = Ret(c, "ErrInvalidAmount")]
            /\ UNCHANGED faults
       ELSE \E ok \in StoreOutcomes :
            LET fromWallet == WalletFindByID(fromWalletID) IN
            /\ faults' = Charge(ok)
            /\ call' = [call EXCEPT ![p] =
                 IF ~ok THEN Ret(Failed(c, "find"), "StoreError")
                 ELSE IF fromWallet = NoWallet THEN Ret(c, "ErrWalletNotFound")
                 ELSE [c EXCEPT !.pc = "findTo", !.wallet = fromWallet]]
    /\ UNCHANGED <<wallets, transactions, txNextID, payments, payNextID, now>>
    /\ UNCHANGED walletNextID
    /\ UNCHANGED cache
    /\ UNCHANGED consumer


\* A Transfer that does not compare the two currency codes.
Transfer_FindToNoCurrencyCheck(p) ==
    /\ At(p, "Transfer", "findTo")
    /\ \E ok \in StoreOutcomes :
       LET c == call[p]
           toWallet == WalletFindByID(c.to)
       IN
       /\ faults' = Charge(ok)
       /\ call' = [call EXCEPT ![p] =
            IF ~ok THEN Ret(Failed(c, "findTo"), "StoreError")
            ELSE IF toWallet = NoWallet THEN Ret(c, "ErrWalletNotFound")
            ELSE [c EXCEPT !.pc = "create", !.toWallet = toWallet]]
    /\ UNCHANGED <<wallets, transactions, txNextID, payments, payNextID, now>>
    /\ UNCHANGED walletNextID
    /\ UNCHANGED cache
    /\ UNCHANGED consumer
Transfer_FindTo(p) ==
    /\ At(p, "Transfer", "findTo")
    /\ \E ok \in StoreOutcomes :
       LET c == call[p]
           toWallet == WalletFindByID(c.to)
       IN
       /\ faults' = Charge(ok)
       /\ call' = [call EXCEPT ![p] =
            IF ~ok THEN Ret(Failed(c, "findTo"), "StoreError")
            ELSE IF toWallet = NoWallet THEN Ret(c, "ErrWalletNotFound")
            ELSE IF c.wallet.CurrencyCode # toWallet.CurrencyCode
                 THEN Ret(c, "ErrCurrencyMismatch")
            ELSE [c EXCEPT !.pc = "create", !.toWallet = toWallet]]
    /\ UNCHANGED <<wallets, transactions, txNextID, payments, payNextID, now>>
    /\ UNCHANGED walletNextID
    /\ UNCHANGED cache
    /\ UNCHANGED consumer

Transfer_Create(p) ==
    /\ At(p, "Transfer", "create")
    /\ \E ok \in StoreOutcomes :
       LET c == call[p]
           t == NewTransferTransaction(c.w, c.to, c.amt)
           tx == [t EXCEPT !.ID = TxCreateID(t)]
           db == Debit(c.wallet, c.amt)
           cr == Credit(c.toWallet, c.amt)
       IN
       /\ faults' = Charge(ok)
       /\ IF ~ok
          THEN /\ call' = [call EXCEPT ![p] = Ret(Failed(c, "create"), "StoreError")]
               /\ UNCHANGED <<transactions, txNextID, payments, payNextID, now>>
          ELSE /\ transactions' = TxCreate(t)
               /\ txNextID' = TxCreateNextID(t)
               /\ call' = [call EXCEPT ![p] =
                    IF db.err # "nil"
                    THEN [c EXCEPT !.tx = Fail(tx), !.pc = "markFailed", !.err = db.err]
                    ELSE IF cr.err # "nil"
                    THEN [c EXCEPT !.tx = Fail(tx), !.wallet = db.wallet,
                                   !.pc = "markFailed", !.err = cr.err]
                    ELSE [c EXCEPT !.tx = tx, !.wallet = db.wallet,
                                   !.toWallet = cr.wallet, !.pc = "saveFrom"]]
    /\ UNCHANGED <<wallets, payments, payNextID, now>>
    /\ UNCHANGED walletNextID
    /\ UNCHANGED cache
    /\ UNCHANGED consumer

Transfer_SaveFrom(p) ==
    /\ At(p, "Transfer", "saveFrom")
    /\ \E ok \in StoreOutcomes :
       LET c == call[p] IN
       /\ faults' = Charge(ok)
       /\ IF ~ok
          THEN /\ call' = [call EXCEPT ![p] =
                    [Failed(c, "saveFrom") EXCEPT !.tx = Fail(c.tx), !.pc = "markFailed",
                                                  !.err = "StoreError"]]
               /\ UNCHANGED <<wallets, payments, payNextID, now>>
          ELSE /\ wallets' = WalletSave(c.wallet)
               /\ call' = [call EXCEPT ![p] = [c EXCEPT !.pc = "saveTo"]]
    /\ UNCHANGED <<transactions, txNextID, payments, payNextID, now>>
    /\ UNCHANGED walletNextID
    /\ UNCHANGED cache
    /\ UNCHANGED consumer

Transfer_SaveTo(p) ==
    /\ At(p, "Transfer", "saveTo")
    /\ \E ok \in StoreOutcomes :
       LET c == call[p] IN
       /\ faults' = Charge(ok)
       /\ IF ~ok
          THEN /\ call' = [call EXCEPT ![p] =
                    [Failed(c, "saveTo") EXCEPT !.tx = Fail(c.tx), !.pc = "refundMark",
                                                !.err = "StoreError"]]
               /\ UNCHANGED <<wallets, payments, payNextID, now>>
          ELSE /\ wallets' = WalletSave(c.toWallet)
               /\ call' = [call EXCEPT ![p] =
                    [c EXCEPT !.tx = Complete(c.tx), !.pc = "markCompleted"]]
    /\ UNCHANGED <<transactions, txNextID, payments, payNextID, now>>
    /\ UNCHANGED walletNextID
    /\ UNCHANGED cache
    /\ UNCHANGED consumer

\* A Transfer that returns the error without storing the FAILED status.
Transfer_MarkFailedNoUpdate(p) ==
    /\ At(p, "Transfer", "markFailed")
    /\ \E ok \in StoreOutcomes :
       LET c == call[p] IN
       /\ faults' = Charge(ok)
       /\ transactions' = transactions
       /\ call' = [call EXCEPT ![p] =
            Ret(IF ok THEN c ELSE Failed(c, "update"), c.err)]
    /\ UNCHANGED <<wallets, txNextID, payments, payNextID, now>>
    /\ UNCHANGED walletNextID
    /\ UNCHANGED cache
    /\ UNCHANGED consumer
\* Debit, credit or source save failed: mark the transaction FAILED, return.
Transfer_MarkFailed(p) ==
    /\ At(p, "Transfer", "markFailed")
    /\ \E ok \in StoreOutcomes :
       LET c == call[p] IN
       /\ faults' = Charge(ok)
       /\ transactions' = IF ok THEN TxUpdate(c.tx) ELSE transactions
       /\ call' = [call EXCEPT ![p] =
            Ret(IF ok THEN c ELSE Failed(c, "update"), c.err)]
    /\ UNCHANGED <<wallets, txNextID, payments, payNextID, now>>
    /\ UNCHANGED walletNextID
    /\ UNCHANGED cache
    /\ UNCHANGED consumer

\* The destination save failed: mark the transaction FAILED, then credit the
\* amount back on the local source wallet (the result of Credit is dropped).
Transfer_RefundMark(p) ==
    /\ At(p, "Transfer", "refundMark")
    /\ \E ok \in StoreOutcomes :
       LET c == call[p] IN
       /\ faults' = Charge(ok)
       /\ transactions' = IF ok THEN TxUpdate(c.tx) ELSE transactions
       /\ call' = [call EXCEPT ![p] =
            [(IF ok THEN c ELSE Failed(c, "update")) EXCEPT
                !.wallet = Credit(c.wallet, c.amt).wallet, !.pc = "refundSave"]]
    /\ UNCHANGED <<wallets, txNextID, payments, payNextID, now>>
    /\ UNCHANGED walletNextID
    /\ UNCHANGED cache
    /\ UNCHANGED consumer

Transfer_RefundSave(p) ==
    /\ At(p, "Transfer", "refundSave")
    /\ \E ok \in StoreOutcomes :
       LET c == call[p] IN
       /\ faults' = Charge(ok)
       /\ wallets' = IF ok THEN WalletSave(c.wallet) ELSE wallets
       /\ call' = [call EXCEPT ![p] =
            Ret(IF ok THEN c ELSE Failed(c, "refundSave"), c.err)]
    /\ UNCHANGED <<transactions, txNextID, payments, payNextID, now>>
    /\ UNCHANGED walletNextID
    /\ UNCHANGED cache
    /\ UNCHANGED consumer

Transfer_MarkCompleted(p) ==
    /\ At(p, "Transfer", "markCompleted")
    /\ \E ok \in StoreOutcomes :
       LET c == call[p] IN
       /\ faults' = Charge(ok)
       /\ cache' = IF ok /\ TxUpdateOK(c.tx)
                   THEN [cache EXCEPT !.wallet =
                            [k \in (DOMAIN cache.wallet) \ {c.w, c.to} |-> cache.wallet[k]]]
                   ELSE cache
       /\ transactions' = IF ok THEN TxUpdate(c.tx) ELSE transactions
       /\ call' = [call EXCEPT ![p] =
            IF ok /\ TxUpdateOK(c.tx) THEN Ret(c, "nil")
            ELSE Ret(Failed(c, "update"), "StoreError")]
    /\ UNCHANGED <<wallets, txNextID, payments, payNextID, now>>
    /\ UNCHANGED walletNextID
    /\ UNCHANGED consumer


\* ------------------------------------------------ WalletService.CreateWallet
\* Calls that will still store a wallet.
WalletRoom ==
    Cardinality(DOMAIN wallets)
        + Cardinality({q \in Procs : call[q].op = "CreateWallet"
                                      /\ call[q].pc \in {"findWallets", "save"}})
        < MaxWallets

\* A CreateWallet that does not look for a wallet of the same currency.
CreateWallet_FindWalletsNoCheck(p) ==
    /\ At(p, "CreateWallet", "findWallets")
    /\ \E ok \in StoreOutcomes :
       LET c == call[p] IN
       /\ faults' = Charge(ok)
       /\ call' = [call EXCEPT ![p] =
            IF ~ok THEN Ret(Failed(c, "findWallets"), "StoreError")
            ELSE [c EXCEPT !.pc = "save", !.wallet = NewWallet(c.user, c.currency)]]
    /\ UNCHANGED <<wallets, transactions, txNextID, payments, payNextID, walletNextID, now>>
    /\ UNCHANGED cache
    /\ UNCHANGED consumer

\* A CreateWallet that does not look the user up.
CreateWallet_BeginNoUserCheck(p, userID, currencyCode) ==
    /\ Free(p) /\ WalletRoom
    /\ \E ok \in StoreOutcomes :
       LET c == [NewCall("CreateWallet", 0, 0, 0) EXCEPT
                    !.user = userID, !.currency = currencyCode]
       IN
       /\ faults' = Charge(ok)
       /\ call' = [call EXCEPT ![p] =
            IF ~ok THEN Ret(Failed(c, "findUser"), "StoreError")
            ELSE [c EXCEPT !.pc = "findWallets"]]
    /\ UNCHANGED <<wallets, transactions, txNextID, payments, payNextID, walletNextID, now>>
    /\ UNCHANGED cache
    /\ UNCHANGED consumer

CreateWallet_Begin(p, userID, currencyCode) ==
    /\ Free(p) /\ WalletRoom
    /\ \E ok \in StoreOutcomes :
       LET c == [NewCall("CreateWallet", 0, 0, 0) EXCEPT
                    !.user = userID, !.currency = currencyCode]
       IN
       /\ faults' = Charge(ok)
       /\ call' = [call EXCEPT ![p] =
            IF ~ok THEN Ret(Failed(c, "findUser"), "StoreError")
            ELSE IF ~UserExists(userID) THEN Ret(c, "ErrUserNotFound")
            ELSE [c EXCEPT !.pc = "findWallets"]]
    /\ UNCHANGED <<wallets, transactions, txNextID, payments, payNextID, walletNextID, now>>
    /\ UNCHANGED cache
    /\ UNCHANGED consumer

\* walletRepo.FindByUserID and the search for a wallet of the same currency.
CreateWallet_FindWallets(p) ==
    /\ At(p, "CreateWallet", "findWallets")
    /\ \E ok \in StoreOutcomes :
       LET c == call[p]
           existingWallets == WalletFindByUserID(c.user)
       IN
       /\ faults' = Charge(ok)
       /\ call' = [call EXCEPT ![p] =
            IF ~ok THEN Ret(Failed(c, "findWallets"), "StoreError")
            ELSE IF \E wallet \in existingWallets : wallet.CurrencyCode = c.currency
                 THEN Ret(c, "ErrWalletAlreadyExists")
            ELSE [c EXCEPT !.pc = "save", !.wallet = NewWallet(c.user, c.currency)]]
    /\ UNCHANGED <<wallets, transactions, txNextID, payments, payNextID, walletNextID, now>>
    /\ UNCHANGED cache
    /\ UNCHANGED consumer

CreateWallet_Save(p) ==
    /\ At(p, "CreateWallet", "save")
    /\ \E ok \in StoreOutcomes :
       LET c == call[p] IN
       /\ faults' = Charge(ok)
       /\ IF ~ok
          THEN /\ call' = [call EXCEPT ![p] = Ret(Failed(c, "save"), "StoreError")]
               /\ UNCHANGED <<wallets, walletNextID>>
          ELSE /\ wallets' = WalletSave(c.wallet)
               /\ walletNextID' = WalletSaveNextID(c.wallet)
               /\ call' = [call EXCEPT ![p] =
                    Ret([c EXCEPT !.wallet.ID = WalletSaveID(c.wallet)], "nil")]
    /\ UNCHANGED <<transactions, txNextID, payments, payNextID, now>>
    /\ UNCHANGED cache
    /\ UNCHANGED consumer
\* ------------------------------------------ WalletService.UpdateWalletStatus
UpdateWalletStatus_Begin(p, walletID, status) ==
    /\ Free(p)
    /\ \E ok \in StoreOutcomes :
       LET c == [NewCall("UpdateWalletStatus", walletID, 0, 0) EXCEPT !.status = status]
           wallet == WalletFindByID(walletID)
       IN
       /\ faults' = Charge(ok)
       /\ call' = [call EXCEPT ![p] =
            IF ~ok THEN Ret(Failed(c, "find"), "StoreError")
            ELSE IF wallet = NoWallet THEN Ret(c, "ErrWalletNotFound")
            ELSE [c EXCEPT !.pc = "updateStatus", !.wallet = wallet]]
    /\ UNCHANGED <<wallets, transactions, txNextID, payments, payNextID, now>>
    /\ UNCHANGED walletNextID
    /\ UNCHANGED cache
    /\ UNCHANGED consumer

UpdateWalletStatus_Update(p) ==
    /\ At(p, "UpdateWalletStatus", "updateStatus")
    /\ \E ok \in StoreOutcomes :
       LET c == call[p] IN
       /\ faults' = Charge(ok)
       /\ cache' = IF ok /\ WalletUpdateStatusOK(c.w) THEN CacheDelete("wallet", c.w) ELSE cache
       /\ wallets' = IF ok THEN WalletUpdateStatus(c.w, c.status) ELSE wallets
       /\ call' = [call EXCEPT ![p] =
            IF ok /\ WalletUpdateStatusOK(c.w) THEN Ret(c, "nil")
            ELSE Ret(Failed(c, "updateStatus"), "StoreError")]
    /\ UNCHANGED <<transactions, txNextID, payments, payNextID, now>>
    /\ UNCHANGED walletNextID
    /\ UNCHANGED consumer


\* ------------------------------------- TransactionService.CreateTransaction
\* The caller hands in the record; ToWalletID 0 stands for a nil pointer.
CreateTransaction_BeginNoAmountCheck(p, transaction) ==
    /\ Free(p) /\ TxRoom
    /\ LET c == [NewCall("CreateTransaction", transaction.WalletID,
                         transaction.ToWalletID, transaction.Amount)
                    EXCEPT !.tx = transaction, !.status = transaction.Status]
       IN
       \E ok \in StoreOutcomes :
            LET wallet == WalletFindByID(transaction.WalletID) IN
            /\ faults' = Charge(ok)
            /\ call' = [call EXCEPT ![p] =
                 IF ~ok THEN Ret(Failed(c, "find"), "StoreError")
                 ELSE IF wallet = NoWallet THEN Ret(c, "ErrWalletNotFound")
                 ELSE IF transaction.Type = "TRANSFER" /\ transaction.ToWalletID # 0
                      THEN [c EXCEPT !.pc = "findTo", !.wallet = wallet]
                 ELSE [c EXCEPT !.pc = "create", !.wallet = wallet]]
    /\ UNCHANGED <<wallets, transactions, txNextID, payments, payNextID, now>>
    /\ UNCHANGED walletNextID
    /\ UNCHANGED cache
    /\ UNCHANGED consumer

CreateTransaction_Begin(p, transaction) ==
    /\ Free(p) /\ TxRoom
    /\ LET c == [NewCall("CreateTransaction", transaction.WalletID,
                         transaction.ToWalletID, transaction.Amount)
                    EXCEPT !.tx = transaction, !.status = transaction.Status]
       IN
       IF transaction.Amount <= 0
       THEN /\ call' = [call EXCEPT ![p] = Ret(c, "ErrInvalidAmount")]
            /\ UNCHANGED faults
       ELSE \E ok \in StoreOutcomes :
            LET wallet == WalletFindByID(transaction.WalletID) IN
            /\ faults' = Charge(ok)
            /\ call' = [call EXCEPT ![p] =
                 IF ~ok THEN Ret(Failed(c, "find"), "StoreError")
                 ELSE IF wallet = NoWallet THEN Ret(c, "ErrWalletNotFound")
                 ELSE IF transaction.Type = "TRANSFER" /\ transaction.ToWalletID # 0
                      THEN [c EXCEPT !.pc = "findTo", !.wallet = wallet]
                 ELSE [c EXCEPT !.pc = "create", !.wallet = wallet]]
    /\ UNCHANGED <<wallets, transactions, txNextID, payments, payNextID, now>>
    /\ UNCHANGED walletNextID
    /\ UNCHANGED cache
    /\ UNCHANGED consumer

CreateTransaction_FindTo(p) ==
    /\ At(p, "CreateTransaction", "findTo")
    /\ \E ok \in StoreOutcomes :
       LET c == call[p]
           toWallet == WalletFindByID(c.to)
       IN
       /\ faults' = Charge(ok)
       /\ call' = [call EXCEPT ![p] =
            IF ~ok THEN Ret(Failed(c, "findTo"), "StoreError")
            ELSE IF toWallet = NoWallet THEN Ret(c, "ErrDestinationNotFound")
            ELSE [c EXCEPT !.pc = "create", !.toWallet = toWallet]]
    /\ UNCHANGED <<wallets, transactions, txNextID, payments, payNextID, now>>
    /\ UNCHANGED walletNextID
    /\ UNCHANGED cache
    /\ UNCHANGED consumer

\* As CreateTransaction_Create, the status the caller supplied being stored.
CreateTransaction_CreateKeepsStatus(p) ==
    /\ At(p, "CreateTransaction", "create")
    /\ \E ok \in StoreOutcomes :
       LET c == call[p]
           t == c.tx
           tx == [t EXCEPT !.ID = TxCreateID(t)]
       IN
       /\ faults' = Charge(ok)
       /\ IF ~ok
          THEN /\ call' = [call EXCEPT ![p] =
                    Ret([Failed(c, "create") EXCEPT !.tx = t], "StoreError")]
               /\ UNCHANGED <<transactions, txNextID>>
          ELSE /\ transactions' = TxCreate(t)
               /\ txNextID' = TxCreateNextID(t)
               /\ call' = [call EXCEPT ![p] = Ret([c EXCEPT !.tx = tx], "nil")]
    /\ UNCHANGED <<wallets, payments, payNextID, now>>
    /\ UNCHANGED walletNextID
    /\ UNCHANGED cache
    /\ UNCHANGED consumer

CreateTransaction_Create(p) ==
    /\ At(p, "CreateTransaction", "create")
    /\ \E ok \in StoreOutcomes :
       LET c == call[p]
           t == [c.tx EXCEPT !.Status = "PENDING"]
           tx == [t EXCEPT !.ID = TxCreateID(t)]
       IN
       /\ faults' = Charge(ok)
       /\ IF ~ok
          THEN /\ call' = [call EXCEPT ![p] =
                    Ret([Failed(c, "create") EXCEPT !.tx = t], "StoreError")]
               /\ UNCHANGED <<transactions, txNextID>>
          ELSE /\ transactions' = TxCreate(t)
               /\ txNextID' = TxCreateNextID(t)
               /\ call' = [call EXCEPT ![p] = Ret([c EXCEPT !.tx = tx], "nil")]
    /\ UNCHANGED <<wallets, payments, payNextID, now>>
    /\ UNCHANGED walletNextID
    /\ UNCHANGED cache
    /\ UNCHANGED consumer
\* ------------------------------- TransactionService.UpdateTransactionStatus
UpdateTransactionStatus_Begin(p, transactionID, status) ==
    /\ Free(p)
    /\ \E ok \in StoreOutcomes :
       LET c == [NewCall("UpdateTransactionStatus", 0, 0, 0) EXCEPT
                    !.status = status, !.tx = [NoTx EXCEPT !.ID = transactionID]]
           transaction == TxFindByID(transactionID)
       IN
       /\ faults' = Charge(ok)
       /\ call' = [call EXCEPT ![p] =
            IF ~ok THEN Ret(Failed(c, "find"), "StoreError")
            ELSE IF transaction = NoTx THEN Ret(c, "ErrTransactionNotFound")
            ELSE [c EXCEPT !.pc = "updateStatus", !.tx = transaction]]
    /\ UNCHANGED <<wallets, transactions, txNextID, payments, payNextID, now>>
    /\ UNCHANGED walletNextID
    /\ UNCHANGED cache
    /\ UNCHANGED consumer

UpdateTransactionStatus_Update(p) ==
    /\ At(p, "UpdateTransactionStatus", "updateStatus")
    /\ \E ok \in StoreOutcomes :
       LET c == call[p] IN
       /\ faults' = Charge(ok)
       /\ cache' = IF ok /\ TxUpdateStatusOK(c.tx.ID) THEN CacheDelete("transaction", c.tx.ID) ELSE cache
       /\ transactions' = IF ok THEN TxUpdateStatus(c.tx.ID, c.status) ELSE transactions
       /\ call' = [call EXCEPT ![p] =
            IF ok /\ TxUpdateStatusOK(c.tx.ID) THEN Ret(c, "nil")
            ELSE Ret(Failed(c, "updateStatus"), "StoreError")]
    /\ UNCHANGED <<wallets, txNextID, payments, payNextID, now>>
    /\ UNCHANGED walletNextID
    /\ UNCHANGED consumer

\* --------------------------- TransactionService.ReconcileFailedTransactions
Reconcile_Begin(p) ==
    /\ Free(p)
    /\ \E ok \in StoreOutcomes :
       LET c == NewCall("Reconcile", 0, 0, 0)
           cutoffTime == now - ReconcileMinutes
           pendingTransactions == FindPendingTransactions(cutoffTime)
       IN
       /\ faults' = Charge(ok)
       /\ call' = [call EXCEPT ![p] =
            IF ~ok THEN Ret(Failed(c, "find"), "StoreError")
            ELSE IF pendingTransactions = {} THEN Ret(c, "nil")
            ELSE [c EXCEPT !.pc = "loop", !.pending = pendingTransactions]]
    /\ UNCHANGED <<wallets, transactions, txNextID, payments, payNextID, now>>
    /\ UNCHANGED walletNextID
    /\ UNCHANGED cache
    /\ UNCHANGED consumer

\* One iteration of the loop over the transactions found.
\* A sweep that returns at the first status update that fails.
Reconcile_LoopAbortsEarly(p) ==
    /\ At(p, "Reconcile", "loop")
    /\ \E id \in call[p].pending, ok \in StoreOutcomes :
       LET c == call[p]
           good == ok /\ TxUpdateStatusOK(id)
           rest == c.pending \ {id}
           nfailed == IF good THEN c.nfailed ELSE c.nfailed + 1
           c1 == [(IF ok THEN c ELSE Failed(c, "updateStatus"))
                     EXCEPT !.pending = rest, !.nfailed = nfailed]
       IN /\ faults' = Charge(ok)
          /\ transactions' = IF ok THEN TxUpdateStatus(id, "FAILED") ELSE transactions
          /\ call' = [call EXCEPT ![p] =
               IF ~good THEN Ret([c1 EXCEPT !.pending = {}], "ErrReconcileFailed")
               ELSE IF rest # {} THEN c1
               ELSE Ret(c1, "nil")]
    /\ UNCHANGED <<wallets, txNextID, payments, payNextID, now>>
    /\ UNCHANGED walletNextID
    /\ UNCHANGED cache
    /\ UNCHANGED consumer
Reconcile_Loop(p) ==
    /\ At(p, "Reconcile", "loop")
    /\ \E id \in call[p].pending, ok \in StoreOutcomes :
       LET c == call[p]
           good == ok /\ TxUpdateStatusOK(id)
           rest == c.pending \ {id}
           nfailed == IF good THEN c.nfailed ELSE c.nfailed + 1
           c1 == [(IF ok THEN c ELSE Failed(c, "updateStatus")) EXCEPT
                     !.pending = rest, !.nfailed = nfailed]
       IN
       /\ faults' = Charge(ok)
       /\ transactions' = IF ok THEN TxUpdateStatus(id, "FAILED") ELSE transactions
       /\ call' = [call EXCEPT ![p] =
            IF rest # {} THEN c1
            ELSE Ret(c1, IF nfailed > 0 THEN "ErrReconcileFailed" ELSE "nil")]
    /\ UNCHANGED <<wallets, txNextID, payments, payNextID, now>>
    /\ UNCHANGED walletNextID
    /\ UNCHANGED cache
    /\ UNCHANGED consumer

\* ---------------------------------------------------------- PaymentService
\* main.go registers the Midtrans and Stripe gateways.
Gateways == {"MIDTRANS", "STRIPE"}
ProviderInputs == {"STRIPE", "DOKU"}
GatewayStatuses ==
    {"PENDING", "COMPLETED", "FAILED", "CANCELLED", "EXPIRED", "REFUNDED", "UNKNOWN"}

\* A mapping without the EXPIRED and REFUNDED cases.
mapToDomainPaymentStatusShort(status) ==
    CASE status = "COMPLETED" -> "COMPLETED"
      [] status = "FAILED" -> "FAILED"
      [] status = "CANCELLED" -> "CANCELLED"
      [] OTHER -> "PENDING"
mapToDomainPaymentStatus(status) ==
    CASE status = "COMPLETED" -> "COMPLETED"
      [] status = "FAILED" -> "FAILED"
      [] status = "CANCELLED" -> "CANCELLED"
      [] status = "EXPIRED" -> "FAILED"
      [] status = "REFUNDED" -> "CANCELLED"
      [] OTHER -> "PENDING"

\* A payment built without its transaction's id.
NewPaymentNoLink(transactionID, amount, provider) ==
    [ID |-> 0, TransactionID |-> 0, Amount |-> amount,
     Provider |-> provider, Status |-> "PENDING", ExternalID |-> ""]
\* domain.NewPayment
NewPayment(transactionID, amount, provider) ==
    [ID |-> 0, TransactionID |-> transactionID, Amount |-> amount,
     Provider |-> provider, Status |-> "PENDING", ExternalID |-> ""]

\* A transition that does not look at the payment's current status.
PaymentTransitionAlways(pm, status) ==
    [payment |-> [pm EXCEPT !.Status = status], err |-> "nil"]
\* Payment.Complete / Fail / Cancel: only from PENDING.
PaymentTransition(pm, status) ==
    IF pm.Status # "PENDING"
    THEN [payment |-> pm, err |-> "ErrPaymentAlreadyProcessed"]
    ELSE [payment |-> [pm EXCEPT !.Status = status], err |-> "nil"]
PaymentComplete(pm) == PaymentTransition(pm, "COMPLETED")
PaymentFail(pm) == PaymentTransition(pm, "FAILED")
PaymentCancel(pm) == PaymentTransition(pm, "CANCELLED")

SetExternalInfo(pm, externalID) == [pm EXCEPT !.ExternalID = externalID]

\* ProcessPayment without the lookup of the provider's gateway.
ProcessPayment_BeginNoProviderCheck(p, walletID, amount, provider) ==
    /\ Free(p) /\ TxRoom
    /\ LET c == [NewCall("ProcessPayment", walletID, 0, amount) EXCEPT
                    !.payment = [NoPayment EXCEPT !.Provider = provider]]
       IN
       IF amount <= 0
       THEN /\ call' = [call EXCEPT ![p] = Ret(c, "ErrInvalidAmount")]
            /\ UNCHANGED faults
       ELSE \E ok \in StoreOutcomes :
            LET wallet == WalletFindByID(walletID) IN
            /\ faults' = Charge(ok)
            /\ call' = [call EXCEPT ![p] =
                 IF ~ok THEN Ret(Failed(c, "find"), "StoreError")
                 ELSE IF wallet = NoWallet THEN Ret(c, "ErrWalletNotFound")
                 ELSE [c EXCEPT !.pc = "createTx", !.wallet = wallet]]
    /\ UNCHANGED <<wallets, transactions, txNextID, payments, payNextID, now>>
    /\ UNCHANGED walletNextID
    /\ UNCHANGED cache
    /\ UNCHANGED consumer
\* PaymentService.ProcessPayment
ProcessPayment_Begin(p, walletID, amount, provider) ==
    /\ Free(p) /\ TxRoom
    /\ LET c == [NewCall("ProcessPayment", walletID, 0, amount) EXCEPT
                    !.payment = [NoPayment EXCEPT !.Provider = provider]]
       IN
       IF amount <= 0
       THEN /\ call' = [call EXCEPT ![p] = Ret(c, "ErrInvalidAmount")]
            /\ UNCHANGED faults
       ELSE \E ok \in StoreOutcomes :
            LET wallet == WalletFindByID(walletID) IN
            /\ faults' = Charge(ok)
            /\ call' = [call EXCEPT ![p] =
                 IF ~ok THEN Ret(Failed(c, "find"), "StoreError")
                 ELSE IF wallet = NoWallet THEN Ret(c, "ErrWalletNotFound")
                 ELSE IF provider \notin Gateways THEN Ret(c, "ErrProviderNotSupported")
                 ELSE [c EXCEPT !.pc = "createTx", !.wallet = wallet]]
    /\ UNCHANGED <<wallets, transactions, txNextID, payments, payNextID, now>>
    /\ UNCHANGED walletNextID
    /\ UNCHANGED cache
    /\ UNCHANGED consumer

ProcessPayment_CreateTx(p) ==
    /\ At(p, "ProcessPayment", "createTx")
    /\ \E ok \in StoreOutcomes :
       LET c == call[p]
           t == [NewTransaction(c.w, "DEPOSIT", c.amt) EXCEPT !.Status = "PENDING"]
           tx == [t EXCEPT !.ID = TxCreateID(t)]
       IN
       /\ faults' = Charge(ok)
       /\ IF ~ok
          THEN /\ call' = [call EXCEPT ![p] = Ret(Failed(c, "create"), "StoreError")]
               /\ UNCHANGED <<transactions, txNextID>>
          ELSE /\ transactions' = TxCreate(t)
               /\ txNextID' = TxCreateNextID(t)
               /\ call' = [call EXCEPT ![p] =
                    [c EXCEPT !.tx = tx, !.pc = "createPayment",
                              !.payment = NewPayment(tx.ID, c.amt, c.payment.Provider)]]
    /\ UNCHANGED <<wallets, payments, payNextID, now>>
    /\ UNCHANGED walletNextID
    /\ UNCHANGED cache
    /\ UNCHANGED consumer

ProcessPayment_CreatePayment(p) ==
    /\ At(p, "ProcessPayment", "createPayment")
    /\ \E ok \in StoreOutcomes :
       LET c == call[p] IN
       /\ faults' = Charge(ok)
       /\ IF ~ok
          THEN /\ call' = [call EXCEPT ![p] =
                    [Failed(c, "createPayment") EXCEPT !.pc = "failTx", !.err = "StoreError"]]
               /\ UNCHANGED <<payments, payNextID>>
          ELSE /\ payments' = PaymentCreate(c.payment)
               /\ payNextID' = payNextID + 1
               /\ call' = [call EXCEPT ![p] =
                    [c EXCEPT !.payment.ID = payNextID, !.pc = "gateway"]]
    /\ UNCHANGED <<wallets, transactions, txNextID, now>>
    /\ UNCHANGED walletNextID
    /\ UNCHANGED cache
    /\ UNCHANGED consumer

\* gateway.ProcessPayment, then the payment is persisted FAILED or with the
\* gateway's external id.
ProcessPayment_Gateway(p) ==
    /\ At(p, "ProcessPayment", "gateway")
    /\ \E gatewayOK \in BOOLEAN, ok \in StoreOutcomes :
       LET c == [call[p] EXCEPT !.gateway = IF gatewayOK THEN "ok" ELSE "error"]
           pm == IF gatewayOK THEN SetExternalInfo(c.payment, "ext")
                 ELSE PaymentFail(c.payment).payment
           c1 == [(IF ok THEN c ELSE Failed(c, "updatePayment")) EXCEPT !.payment = pm]
       IN
       /\ faults' = Charge(ok)
       /\ payments' = IF ok THEN PaymentUpdate(pm) ELSE payments
       /\ call' = [call EXCEPT ![p] =
            IF ~gatewayOK THEN [c1 EXCEPT !.pc = "failTx", !.err = "ErrGateway"]
            ELSE IF ok /\ PaymentUpdateOK(pm) THEN Ret(c1, "nil")
            ELSE Ret(c1, "StoreError")]
    /\ UNCHANGED <<wallets, transactions, txNextID, payNextID, now>>
    /\ UNCHANGED walletNextID
    /\ UNCHANGED cache
    /\ UNCHANGED consumer

ProcessPayment_FailTx(p) ==
    /\ At(p, "ProcessPayment", "failTx")
    /\ \E ok \in StoreOutcomes :
       LET c == call[p] IN
       /\ faults' = Charge(ok)
       /\ transactions' = IF ok THEN TxUpdateStatus(c.tx.ID, "FAILED") ELSE transactions
       /\ call' = [call EXCEPT ![p] =
            Ret(IF ok THEN c ELSE Failed(c, "updateStatus"), c.err)]
    /\ UNCHANGED <<wallets, txNextID, payments, payNextID, now>>
    /\ UNCHANGED walletNextID
    /\ UNCHANGED cache
    /\ UNCHANGED consumer

\* PaymentService.VerifyPayment
\* VerifyPayment without the early return for a payment already COMPLETED or
\* CANCELLED.
VerifyPayment_BeginNoSkip(p, paymentID) ==
    /\ Free(p)
    /\ \E ok \in StoreOutcomes :
       LET c == [NewCall("VerifyPayment", 0, 0, 0) EXCEPT
                    !.payment = [NoPayment EXCEPT !.ID = paymentID]]
           payment == PaymentFindByID(paymentID)
       IN
       /\ faults' = Charge(ok)
       /\ call' = [call EXCEPT ![p] =
            IF ~ok THEN Ret(Failed(c, "find"), "StoreError")
            ELSE IF payment = NoPayment THEN Ret(c, "ErrPaymentNotFound")
            ELSE IF payment.Provider \notin Gateways
                 THEN Ret([c EXCEPT !.payment = payment], "ErrProviderNotSupported")
            ELSE [c EXCEPT !.pc = "check", !.payment = payment]]
    /\ UNCHANGED <<wallets, transactions, txNextID, payments, payNextID, now>>
    /\ UNCHANGED walletNextID
    /\ UNCHANGED cache
    /\ UNCHANGED consumer
VerifyPayment_Begin(p, paymentID) ==
    /\ Free(p)
    /\ \E ok \in StoreOutcomes :
       LET c == [NewCall("VerifyPayment", 0, 0, 0) EXCEPT
                    !.payment = [NoPayment EXCEPT !.ID = paymentID]]
           payment == PaymentFindByID(paymentID)
       IN
       /\ faults' = Charge(ok)
       /\ call' = [call EXCEPT ![p] =
            IF ~ok THEN Ret(Failed(c, "find"), "StoreError")
            ELSE IF payment = NoPayment THEN Ret(c, "ErrPaymentNotFound")
            ELSE IF payment.Status \in {"COMPLETED", "CANCELLED"}
                 THEN Ret([c EXCEPT !.payment = payment], "nil")
            ELSE IF payment.Provider \notin Gateways
                 THEN Ret([c EXCEPT !.payment = payment], "ErrProviderNotSupported")
            ELSE [c EXCEPT !.pc = "check", !.payment = payment]]
    /\ UNCHANGED <<wallets, transactions, txNextID, payments, payNextID, now>>
    /\ UNCHANGED walletNextID
    /\ UNCHANGED cache
    /\ UNCHANGED consumer

\* gateway.CheckPaymentStatus, the payment's transition and its save.
VerifyPayment_Check(p) ==
    /\ At(p, "VerifyPayment", "check")
    /\ \E gatewayOK \in BOOLEAN, gatewayStatus \in GatewayStatuses :
       LET c == [call[p] EXCEPT !.gateway = IF gatewayOK THEN gatewayStatus ELSE "error"]
           newStatus == mapToDomainPaymentStatus(gatewayStatus)
           tr == CASE newStatus = "COMPLETED" -> PaymentComplete(c.payment)
                   [] newStatus = "FAILED" -> PaymentFail(c.payment)
                   [] newStatus = "CANCELLED" -> PaymentCancel(c.payment)
                   [] OTHER -> [payment |-> c.payment, err |-> "nil"]
       IN
       IF ~gatewayOK
       THEN /\ call' = [call EXCEPT ![p] = Ret(c, "ErrGateway")]
            /\ UNCHANGED <<payments, faults>>
       ELSE IF newStatus = c.payment.Status
       THEN /\ call' = [call EXCEPT ![p] = Ret(c, "nil")]
            /\ UNCHANGED <<payments, faults>>
       ELSE IF tr.err # "nil"
       THEN /\ call' = [call EXCEPT ![p] = Ret(c, tr.err)]
            /\ UNCHANGED <<payments, faults>>
       ELSE \E ok \in StoreOutcomes :
            /\ faults' = Charge(ok)
            /\ payments' = IF ok THEN PaymentUpdate(tr.payment) ELSE payments
            /\ call' = [call EXCEPT ![p] =
                 IF ok /\ PaymentUpdateOK(tr.payment)
                 THEN [c EXCEPT !.payment = tr.payment, !.status = newStatus,
                                !.pc = "findTx"]
                 ELSE Ret(Failed(c, "updatePayment"), "StoreError")]
    /\ UNCHANGED <<wallets, transactions, txNextID, payNextID, now>>
    /\ UNCHANGED walletNextID
    /\ UNCHANGED cache
    /\ UNCHANGED consumer

VerifyPayment_FindTx(p) ==
    /\ At(p, "VerifyPayment", "findTx")
    /\ \E ok \in StoreOutcomes :
       LET c == call[p]
           transaction == TxFindByID(c.payment.TransactionID)
       IN
       /\ faults' = Charge(ok)
       /\ call' = [call EXCEPT ![p] =
            IF ~ok THEN Ret(Failed(c, "findTx"), "nil")
            ELSE IF transaction = NoTx THEN Ret(c, "nil")
            ELSE IF c.status = "COMPLETED"
                 THEN [c EXCEPT !.tx = transaction, !.pc = "findWallet"]
            ELSE IF c.status \in {"FAILED", "CANCELLED"}
                 THEN [c EXCEPT !.tx = transaction, !.pc = "failTx"]
            ELSE Ret([c EXCEPT !.tx = transaction], "nil")]
    /\ UNCHANGED <<wallets, transactions, txNextID, payments, payNextID, now>>
    /\ UNCHANGED walletNextID
    /\ UNCHANGED cache
    /\ UNCHANGED consumer

VerifyPayment_FindWallet(p) ==
    /\ At(p, "VerifyPayment", "findWallet")
    /\ \E ok \in StoreOutcomes :
       LET c == call[p]
           wallet == WalletFindByID(c.tx.WalletID)
           cr == Credit(wallet, c.tx.Amount)
       IN
       /\ faults' = Charge(ok)
       /\ call' = [call EXCEPT ![p] =
            IF ~ok THEN Ret(Failed(c, "findWallet"), "nil")
            ELSE IF wallet = NoWallet THEN Ret(c, "nil")
            ELSE IF cr.err # "nil" THEN Ret([c EXCEPT !.wallet = wallet], "nil")
            ELSE [c EXCEPT !.wallet = cr.wallet, !.pc = "saveWallet"]]
    /\ UNCHANGED <<wallets, transactions, txNextID, payments, payNextID, now>>
    /\ UNCHANGED walletNextID
    /\ UNCHANGED cache
    /\ UNCHANGED consumer

VerifyPayment_SaveWallet(p) ==
    /\ At(p, "VerifyPayment", "saveWallet")
    /\ \E ok \in StoreOutcomes :
       LET c == call[p] IN
       /\ faults' = Charge(ok)
       /\ wallets' = IF ok THEN WalletSave(c.wallet) ELSE wallets
       /\ call' = [call EXCEPT ![p] =
            [(IF ok THEN c ELSE Failed(c, "save")) EXCEPT !.pc = "completeTx"]]
    /\ UNCHANGED <<transactions, txNextID, payments, payNextID, now>>
    /\ UNCHANGED walletNextID
    /\ UNCHANGED cache
    /\ UNCHANGED consumer

VerifyPayment_CompleteTx(p) ==
    /\ At(p, "VerifyPayment", "completeTx")
    /\ \E ok \in StoreOutcomes :
       LET c == call[p] IN
       /\ faults' = Charge(ok)
       /\ transactions' =
            IF ok THEN TxUpdateStatus(c.tx.ID, "COMPLETED") ELSE transactions
       /\ call' = [call EXCEPT ![p] =
            Ret(IF ok THEN c ELSE Failed(c, "updateStatus"), "nil")]
    /\ UNCHANGED <<wallets, txNextID, payments, payNextID, now>>
    /\ UNCHANGED walletNextID
    /\ UNCHANGED cache
    /\ UNCHANGED consumer

VerifyPayment_FailTx(p) ==
    /\ At(p, "VerifyPayment", "failTx")
    /\ \E ok \in StoreOutcomes :
       LET c == call[p] IN
       /\ faults' = Charge(ok)
       /\ transactions' = IF ok THEN TxUpdateStatus(c.tx.ID, "FAILED") ELSE transactions
       /\ call' = [call EXCEPT ![p] =
            Ret(IF ok THEN c ELSE Failed(c, "updateStatus"), "nil")]
    /\ UNCHANGED <<wallets, txNextID, payments, payNextID, now>>
    /\ UNCHANGED walletNextID
    /\ UNCHANGED cache
    /\ UNCHANGED consumer

\* CancelPayment without the check that the payment is PENDING.
CancelPayment_BeginNoStatusCheck(p, paymentID) ==
    /\ Free(p)
    /\ \E ok \in StoreOutcomes :
       LET c == [NewCall("CancelPayment", 0, 0, 0) EXCEPT
                    !.payment = [NoPayment EXCEPT !.ID = paymentID]]
           payment == PaymentFindByID(paymentID)
       IN
       /\ faults' = Charge(ok)
       /\ call' = [call EXCEPT ![p] =
            IF ~ok THEN Ret(Failed(c, "find"), "StoreError")
            ELSE IF payment = NoPayment THEN Ret(c, "ErrPaymentNotFound")
            ELSE IF payment.Provider \notin Gateways
                 THEN Ret([c EXCEPT !.payment = payment], "ErrProviderNotSupported")
            ELSE [c EXCEPT !.pc = "cancel", !.payment = payment]]
    /\ UNCHANGED <<wallets, transactions, txNextID, payments, payNextID, now>>
    /\ UNCHANGED walletNextID
    /\ UNCHANGED cache
    /\ UNCHANGED consumer
\* PaymentService.CancelPayment
CancelPayment_Begin(p, paymentID) ==
    /\ Free(p)
    /\ \E ok \in StoreOutcomes :
       LET c == [NewCall("CancelPayment", 0, 0, 0) EXCEPT
                    !.payment = [NoPayment EXCEPT !.ID = paymentID]]
           payment == PaymentFindByID(paymentID)
       IN
       /\ faults' = Charge(ok)
       /\ call' = [call EXCEPT ![p] =
            IF ~ok THEN Ret(Failed(c, "find"), "StoreError")
            ELSE IF payment = NoPayment THEN Ret(c, "ErrPaymentNotFound")
            ELSE IF payment.Status # "PENDING"
                 THEN Ret([c EXCEPT !.payment = payment], "ErrCannotCancel")
            ELSE IF payment.Provider \notin Gateways
                 THEN Ret([c EXCEPT !.payment = payment], "ErrProviderNotSupported")
            ELSE [c EXCEPT !.pc = "cancel", !.payment = payment]]
    /\ UNCHANGED <<wallets, transactions, txNextID, payments, payNextID, now>>
    /\ UNCHANGED walletNextID
    /\ UNCHANGED cache
    /\ UNCHANGED consumer

\* A cancellation that goes on when the gateway's CancelPayment has failed.
CancelPayment_CancelIgnoresGateway(p) ==
    /\ At(p, "CancelPayment", "cancel")
    /\ \E gatewayOK \in BOOLEAN :
       LET c == [call[p] EXCEPT !.gateway = IF gatewayOK THEN "ok" ELSE "error"]
           tr == PaymentCancel(c.payment)
       IN
       IF tr.err # "nil"
       THEN /\ call' = [call EXCEPT ![p] = Ret(c, tr.err)]
            /\ UNCHANGED <<payments, faults>>
       ELSE \E ok \in StoreOutcomes :
            /\ faults' = Charge(ok)
            /\ payments' = IF ok THEN PaymentUpdate(tr.payment) ELSE payments
            /\ call' = [call EXCEPT ![p] =
                 IF ok /\ PaymentUpdateOK(tr.payment)
                 THEN [c EXCEPT !.payment = tr.payment, !.pc = "failTx"]
                 ELSE Ret(Failed(c, "updatePayment"), "StoreError")]
    /\ UNCHANGED <<wallets, transactions, txNextID, payNextID, now>>
    /\ UNCHANGED walletNextID
    /\ UNCHANGED cache
    /\ UNCHANGED consumer
\* gateway.CancelPayment, Payment.Cancel and the payment's save.
CancelPayment_Cancel(p) ==
    /\ At(p, "CancelPayment", "cancel")
    /\ \E gatewayOK \in BOOLEAN :
       LET c == [call[p] EXCEPT !.gateway = IF gatewayOK THEN "ok" ELSE "error"]
           tr == PaymentCancel(c.payment)
       IN
       IF ~gatewayOK
       THEN /\ call' = [call EXCEPT ![p] = Ret(c, "ErrGateway")]
            /\ UNCHANGED <<payments, faults>>
       ELSE IF tr.err # "nil"
       THEN /\ call' = [call EXCEPT ![p] = Ret(c, tr.err)]
            /\ UNCHANGED <<payments, faults>>
       ELSE \E ok \in StoreOutcomes :
            /\ faults' = Charge(ok)
            /\ payments' = IF ok THEN PaymentUpdate(tr.payment) ELSE payments
            /\ call' = [call EXCEPT ![p] =
                 IF ok /\ PaymentUpdateOK(tr.payment)
                 THEN [c EXCEPT !.payment = tr.payment, !.pc = "failTx"]
                 ELSE Ret(Failed(c, "updatePayment"), "StoreError")]
    /\ UNCHANGED <<wallets, transactions, txNextID, payNextID, now>>
    /\ UNCHANGED walletNextID
    /\ UNCHANGED cache
    /\ UNCHANGED consumer

CancelPayment_FailTx(p) ==
    /\ At(p, "CancelPayment", "failTx")
    /\ \E ok \in StoreOutcomes :
       LET c == call[p] IN
       /\ faults' = Charge(ok)
       /\ transactions' =
            IF ok THEN TxUpdateStatus(c.payment.TransactionID, "FAILED") ELSE transactions
       /\ call' = [call EXCEPT ![p] =
            Ret(IF ok THEN c ELSE Failed(c, "updateStatus"), "nil")]
    /\ UNCHANGED <<wallets, txNextID, payments, payNextID, now>>
    /\ UNCHANGED walletNextID
    /\ UNCHANGED cache
    /\ UNCHANGED consumer

\* ------------------------------------------------------------ read operations
\* WalletService.GetWallet: the cached copy when there is one, else the stored
\* wallet, which is then cached. GetBalance (op = "GetBalance") is GetWallet
\* followed by the selection of Balance and CurrencyCode.
GetWallet_Begin(p, op, walletID) ==
    /\ Free(p)
    /\ LET c == NewCall(op, walletID, 0, 0) IN
       call' = [call EXCEPT ![p] =
            IF CacheHit("wallet", walletID)
            THEN Ret([c EXCEPT !.wallet = CacheGet("wallet", walletID), !.hit = TRUE], "nil")
            ELSE [c EXCEPT !.pc = "find"]]
    /\ UNCHANGED <<wallets, transactions, txNextID, payments, payNextID, now, faults>>
    /\ UNCHANGED walletNextID
    /\ UNCHANGED cache
    /\ UNCHANGED consumer

\* A lookup that stores a fresh wallet under an id it does not find.
GetWallet_FindOrCreate(p) ==
    /\ call[p].op \in {"GetWallet", "GetBalance"}
    /\ call[p].pc = "find"
    /\ \E ok \in StoreOutcomes :
       LET c == call[p]
           wallet == WalletFindByID(c.w)
           fresh == [NewWallet(c.w, "USD") EXCEPT !.ID = c.w]
       IN
       /\ faults' = Charge(ok)
       /\ wallets' = IF ok /\ wallet = NoWallet THEN WalletSave(fresh) ELSE wallets
       /\ cache' = IF ok /\ wallet # NoWallet THEN CacheSet("wallet", c.w, wallet) ELSE cache
       /\ call' = [call EXCEPT ![p] =
            IF ~ok THEN Ret(Failed(c, "find"), "StoreError")
            ELSE IF wallet = NoWallet THEN Ret([c EXCEPT !.wallet = fresh], "nil")
            ELSE Ret([c EXCEPT !.wallet = wallet], "nil")]
    /\ UNCHANGED <<transactions, txNextID, payments, payNextID, now>>
    /\ UNCHANGED walletNextID
    /\ UNCHANGED consumer

GetWallet_Find(p) ==
    /\ call[p].op \in {"GetWallet", "GetBalance"}
    /\ call[p].pc = "find"
    /\ \E ok \in StoreOutcomes :
       LET c == call[p]
           wallet == WalletFindByID(c.w)
       IN
       /\ faults' = Charge(ok)
       /\ cache' = IF ok /\ wallet # NoWallet THEN CacheSet("wallet", c.w, wallet) ELSE cache
       /\ call' = [call EXCEPT ![p] =
            IF ~ok THEN Ret(Failed(c, "find"), "StoreError")
            ELSE IF wallet = NoWallet THEN Ret(c, "ErrWalletNotFound")
            ELSE Ret([c EXCEPT !.wallet = wallet], "nil")]
    /\ UNCHANGED <<wallets, transactions, txNextID, payments, payNextID, now>>
    /\ UNCHANGED walletNextID
    /\ UNCHANGED consumer

\* WalletService.GetWalletsByUserID
GetWalletsByUserID_Begin(p, userID) ==
    /\ Free(p)
    /\ \E ok \in StoreOutcomes :
       LET c == [NewCall("GetWalletsByUserID", 0, 0, 0) EXCEPT !.user = userID] IN
       /\ faults' = Charge(ok)
       /\ call' = [call EXCEPT ![p] =
            IF ~ok THEN Ret(Failed(c, "findUser"), "StoreError")
            ELSE IF ~UserExists(userID) THEN Ret(c, "ErrUserNotFound")
            ELSE [c EXCEPT !.pc = "findWallets"]]
    /\ UNCHANGED <<wallets, transactions, txNextID, payments, payNextID, now>>
    /\ UNCHANGED walletNextID
    /\ UNCHANGED cache
    /\ UNCHANGED consumer

GetWalletsByUserID_Find(p) ==
    /\ At(p, "GetWalletsByUserID", "findWallets")
    /\ \E ok \in StoreOutcomes :
       LET c == call[p] IN
       /\ faults' = Charge(ok)
       /\ call' = [call EXCEPT ![p] =
            IF ~ok THEN Ret(Failed(c, "findWallets"), "StoreError")
            ELSE Ret([c EXCEPT !.found = WalletFindByUserID(c.user)], "nil")]
    /\ UNCHANGED <<wallets, transactions, txNextID, payments, payNextID, now>>
    /\ UNCHANGED walletNextID
    /\ UNCHANGED cache
    /\ UNCHANGED consumer

\* TransactionRepository.FindByWalletID before pagination and CountByWalletID:
\* the transactions that debit or credit the wallet.
TxOfWallet(walletID) ==
    {id \in DOMAIN transactions :
        \/ transactions[id].WalletID = walletID
        \/ transactions[id].ToWalletID = walletID}

\* The length of transactions[start:end] in FindByWalletID.
PageSize(n, limit, offset) ==
    IF offset > n THEN 0
    ELSE (IF offset + limit > n THEN n ELSE offset + limit) - offset

Limits == {1, 2}
Offsets == {0, 1}

\* WalletService.GetTransactionHistory
GetTransactionHistory_Begin(p, walletID, limit, offset) ==
    /\ Free(p)
    /\ \E ok \in StoreOutcomes :
       LET c == [NewCall("GetTransactionHistory", walletID, 0, 0) EXCEPT
                    !.limit = limit, !.offset = offset]
           wallet == WalletFindByID(walletID)
       IN
       /\ faults' = Charge(ok)
       /\ call' = [call EXCEPT ![p] =
            IF ~ok THEN Ret(Failed(c, "find"), "StoreError")
            ELSE IF wallet = NoWallet THEN Ret(c, "ErrWalletNotFound")
            ELSE [c EXCEPT !.pc = "findTxs", !.wallet = wallet]]
    /\ UNCHANGED <<wallets, transactions, txNextID, payments, payNextID, now>>
    /\ UNCHANGED walletNextID
    /\ UNCHANGED cache
    /\ UNCHANGED consumer

\* FindByWalletID walks a map: the page is any transactions[start:end] of the
\* wallet's transactions in some order.
GetTransactionHistory_Find(p) ==
    /\ At(p, "GetTransactionHistory", "findTxs")
    /\ \E ok \in StoreOutcomes :
       LET c == call[p]
           all == TxOfWallet(c.w)
           size == PageSize(Cardinality(all), c.limit, c.offset)
       IN
       /\ faults' = Charge(ok)
       /\ \E page \in {s \in SUBSET all : Cardinality(s) = size} :
            call' = [call EXCEPT ![p] =
               IF ~ok THEN Ret(Failed(c, "findTxs"), "StoreError")
               ELSE [c EXCEPT !.pc = "count",
                              !.found = {transactions[id] : id \in page}]]
    /\ UNCHANGED <<wallets, transactions, txNextID, payments, payNextID, now>>
    /\ UNCHANGED walletNextID
    /\ UNCHANGED cache
    /\ UNCHANGED consumer

GetTransactionHistory_Count(p) ==
    /\ At(p, "GetTransactionHistory", "count")
    /\ \E ok \in StoreOutcomes :
       LET c == call[p] IN
       /\ faults' = Charge(ok)
       /\ call' = [call EXCEPT ![p] =
            IF ~ok THEN Ret(Failed(c, "count"), "StoreError")
            ELSE Ret([c EXCEPT !.count = Cardinality(TxOfWallet(c.w))], "nil")]
    /\ UNCHANGED <<wallets, transactions, txNextID, payments, payNextID, now>>
    /\ UNCHANGED walletNextID
    /\ UNCHANGED cache
    /\ UNCHANGED consumer

\* TransactionService.GetTransaction: the cached copy when there is one, else
\* the stored transaction, which is then cached.
GetTransaction_Begin(p, transactionID) ==
    /\ Free(p)
    /\ LET c == [NewCall("GetTransaction", 0, 0, 0) EXCEPT !.tx.ID = transactionID] IN
       call' = [call EXCEPT ![p] =
            IF CacheHit("transaction", transactionID)
            THEN Ret([c EXCEPT !.tx = CacheGet("transaction", transactionID),
                               !.hit = TRUE], "nil")
            ELSE [c EXCEPT !.pc = "find"]]
    /\ UNCHANGED <<wallets, transactions, txNextID, payments, payNextID, now, faults>>
    /\ UNCHANGED walletNextID
    /\ UNCHANGED cache
    /\ UNCHANGED consumer

GetTransaction_Find(p) ==
    /\ At(p, "GetTransaction", "find")
    /\ \E ok \in StoreOutcomes :
       LET c == call[p]
           transaction == TxFindByID(c.tx.ID)
       IN
       /\ faults' = Charge(ok)
       /\ cache' = IF ok /\ transaction # NoTx
                   THEN CacheSet("transaction", c.tx.ID, transaction) ELSE cache
       /\ call' = [call EXCEPT ![p] =
            IF ~ok THEN Ret(Failed(c, "find"), "StoreError")
            ELSE IF transaction = NoTx THEN Ret(c, "ErrTransactionNotFound")
            ELSE Ret([c EXCEPT !.tx = transaction], "nil")]
    /\ UNCHANGED <<wallets, transactions, txNextID, payments, payNextID, now>>
    /\ UNCHANGED walletNextID
    /\ UNCHANGED consumer

ReadSteps(p) ==
    \/ GetWallet_Find(p)
    \/ GetWalletsByUserID_Find(p)
    \/ GetTransactionHistory_Find(p)
    \/ GetTransactionHistory_Count(p)
    \/ GetTransaction_Find(p)
\* -------------------------------------------------------------------- time
Tick ==
    /\ now + TickMinutes <= MaxTime
    /\ now' = now + TickMinutes
    /\ UNCHANGED <<wallets, transactions, txNextID, payments, payNextID, call, faults>>
    /\ UNCHANGED walletNextID
    /\ cache' = CacheExpire(now')
    /\ UNCHANGED consumer

\* The caller takes the result; the request task is free for the next call.
Return(p) ==
    /\ call[p].pc = "done"
    /\ call' = [call EXCEPT ![p] = Idle]
    /\ UNCHANGED <<wallets, transactions, txNextID, payments, payNextID, now, faults>>
    /\ UNCHANGED walletNextID
    /\ UNCHANGED cache
    /\ UNCHANGED consumer

\* ----------------------------------------------------------- specifications
DepositSteps(p) ==
    \/ Deposit_Create(p)
    \/ Deposit_CreditFailed(p)
    \/ Deposit_Save(p)
    \/ Deposit_MarkFailed(p)
    \/ Deposit_MarkCompleted(p)

WithdrawSteps(p) ==
    \/ Withdraw_Create(p)
    \/ Withdraw_Save(p)
    \/ Withdraw_MarkFailed(p)
    \/ Withdraw_MarkCompleted(p)

TransferSteps(p) ==
    \/ Transfer_FindTo(p)
    \/ Transfer_Create(p)
    \/ Transfer_SaveFrom(p)
    \/ Transfer_SaveTo(p)
    \/ Transfer_MarkFailed(p)
    \/ Transfer_RefundMark(p)
    \/ Transfer_RefundSave(p)
    \/ Transfer_MarkCompleted(p)

ProcessPaymentSteps(p) ==
    \/ ProcessPayment_CreateTx(p)
    \/ ProcessPayment_CreatePayment(p)
    \/ ProcessPayment_Gateway(p)
    \/ ProcessPayment_FailTx(p)

VerifyPaymentSteps(p) ==
    \/ VerifyPayment_Check(p)
    \/ VerifyPayment_FindTx(p)
    \/ VerifyPayment_FindWallet(p)
    \/ VerifyPayment_SaveWallet(p)
    \/ VerifyPayment_CompleteTx(p)
    \/ VerifyPayment_FailTx(p)

\* The wallet transaction core, one call after the other, over a store whose
\* calls may fail.
Next ==
    \E p \in SeqProcs :
        \/ \E w \in WalletInputs, a \in AmountInputs : Deposit_Begin(p, w, a)
        \/ DepositSteps(p)
        \/ \E w \in WalletInputs, a \in AmountInputs : Withdraw_Begin(p, w, a)
        \/ WithdrawSteps(p)
        \/ \E w \in WalletInputs, t \in WalletInputs, a \in AmountInputs :
              Transfer_Begin(p, w, t, a)
        \/ TransferSteps(p)
        \/ Return(p)

Spec == Init /\ [][Next]_vars

\* Two active wallets of one currency, the first one empty or funded, the
\* second one funded.
InitLifecycle ==
    /\ \E b \in 0..1 :
         wallets = [id \in WalletIDs |->
                      [ID |-> id, UserID |-> id, Balance |-> IF id = 1 THEN b ELSE 1,
                       CurrencyCode |-> "USD", Status |-> "ACTIVE"]]
    /\ transactions = <<>>
    /\ txNextID = 1
    /\ payments = <<>>
    /\ payNextID = 1
    /\ now = 0
    /\ call = [p \in Procs |-> Idle]
    /\ faults = 0
    /\ walletNextID = NWallets + 1
    /\ cache = NoCache
    /\ consumer = NewKafkaEventConsumer

\* Every service that writes a transaction's status, one call after the
\* other, with time passing.
NextLifecycle ==
    \/ \E p \in SeqProcs :
        \/ \E a \in LifecycleAmounts : Deposit_Begin(p, 1, a)
        \/ DepositSteps(p)
        \/ \E a \in LifecycleAmounts : Withdraw_Begin(p, 1, a)
        \/ WithdrawSteps(p)
        \/ \E a \in LifecycleAmounts : Transfer_Begin(p, 1, 2, a)
        \/ TransferSteps(p)
        \/ \E id \in TxInputs, st \in TxStatuses : UpdateTransactionStatus_Begin(p, id, st)
        \/ UpdateTransactionStatus_Update(p)
        \/ Reconcile_Begin(p)
        \/ Reconcile_Loop(p)
        \/ \E a \in LifecycleAmounts, pr \in ProviderInputs :
              ProcessPayment_Begin(p, 1, a, pr)
        \/ ProcessPaymentSteps(p)
        \/ \E id \in PaymentInputs : VerifyPayment_Begin(p, id)
        \/ VerifyPaymentSteps(p)
        \/ \E id \in PaymentInputs : CancelPayment_Begin(p, id)
        \/ CancelPayment_Cancel(p)
        \/ CancelPayment_FailTx(p)
        \/ Return(p)
    \/ Tick

SpecLifecycle == InitLifecycle /\ [][NextLifecycle]_vars

\* Two active, funded wallets of one currency; a top-up of the first wallet
\* may be waiting for its gateway (the state ProcessPayment leaves behind).
InitConc ==
    /\ wallets = [id \in WalletIDs |->
                    [ID |-> id, UserID |-> id, Balance |-> MaxInitBalance,
                     CurrencyCode |-> "USD", Status |-> "ACTIVE"]]
    /\ \E paid \in BOOLEAN :
         /\ transactions =
               IF paid
               THEN <<[ID |-> 1, WalletID |-> 1, Type |-> "DEPOSIT", Amount |-> 1,
                       Status |-> "PENDING", ToWalletID |-> 0, CreatedAt |-> 0]>>
               ELSE <<>>
         /\ txNextID = IF paid THEN 2 ELSE 1
         /\ payments =
               IF paid
               THEN <<[ID |-> 1, TransactionID |-> 1, Amount |-> 1,
                       Provider |-> "STRIPE", Status |-> "PENDING",
                       ExternalID |-> "ext"]>>
               ELSE <<>>
         /\ payNextID = IF paid THEN 2 ELSE 1
    /\ now = 0
    /\ call = [p \in Procs |-> Idle]
    /\ faults = 0
    /\ walletNextID = NWallets + 1
    /\ cache = NoCache
    /\ consumer = NewKafkaEventConsumer

\* Request tasks running wallet calls and payment verification side by side.
NextConc ==
    \E p \in Procs :
        \/ \E w \in WalletIDs, a \in ConcAmounts : Deposit_Begin(p, w, a)
        \/ DepositSteps(p)
        \/ \E w \in WalletIDs, a \in ConcAmounts : Withdraw_Begin(p, w, a)
        \/ WithdrawSteps(p)
        \/ \E a \in ConcAmounts : Transfer_Begin(p, 1, 2, a)
        \/ TransferSteps(p)
        \/ VerifyPayment_Begin(p, 1)
        \/ VerifyPaymentSteps(p)
        \/ Return(p)

SpecConc == InitConc /\ [][NextConc]_vars


\* The records a caller hands to CreateTransaction: built as NewTransaction
\* builds them, with or without an id of the caller's choosing.
CreateTransactionInputs(amounts) ==
    {[ID |-> id, WalletID |-> w, Type |-> ty, Amount |-> a, Status |-> "",
      ToWalletID |-> to, CreatedAt |-> now] :
        id \in {0, 1}, w \in WalletInputs, ty \in TxTypes, a \in amounts,
        to \in {0, NWallets}}

\* The five operations that take an amount, called one after the other with
\* amounts around zero and with known and unknown wallet ids.
NextValidation ==
    \E p \in SeqProcs :
        \/ \E w \in WalletInputs, a \in ValidationAmounts : Deposit_Begin(p, w, a)
        \/ DepositSteps(p)
        \/ \E w \in WalletInputs, a \in ValidationAmounts : Withdraw_Begin(p, w, a)
        \/ WithdrawSteps(p)
        \/ \E w \in WalletInputs, t \in WalletInputs, a \in ValidationAmounts :
              Transfer_Begin(p, w, t, a)
        \/ TransferSteps(p)
        \/ \E w \in WalletInputs, a \in ValidationAmounts, pr \in ProviderInputs :
              ProcessPayment_Begin(p, w, a, pr)
        \/ ProcessPaymentSteps(p)
        \/ \E t \in CreateTransactionInputs(ValidationAmounts) :
              CreateTransaction_Begin(p, t)
        \/ CreateTransaction_FindTo(p)
        \/ CreateTransaction_Create(p)
        \/ Return(p)

SpecValidation == InitLifecycle /\ [][NextValidation]_vars

\* Wallets created and switched between ACTIVE and INACTIVE, one call after
\* the other.
NextWallets ==
    \E p \in SeqProcs :
        \/ \E u \in UserInputs, cur \in Currencies : CreateWallet_Begin(p, u, cur)
        \/ CreateWallet_FindWallets(p)
        \/ CreateWallet_Save(p)
        \/ \E w \in WalletInputs, st \in WalletStatuses : UpdateWalletStatus_Begin(p, w, st)
        \/ UpdateWalletStatus_Update(p)
        \/ Return(p)

SpecWallets == Init /\ [][NextWallets]_vars
\* ------------------------------------------------------------- properties
\* A call of the service method op has returned to its caller.
Returned(p, op) == call[p].op = op /\ call[p].pc = "done"

\* The wallet the call was made on, as it was stored when the call began.
Existed(c, id) == id \in DOMAIN c.before.wallets
BalanceBefore(c, id) == c.before.wallets[id].Balance
ActiveBefore(c, id) == c.before.wallets[id].Status = "ACTIVE"

\* The transaction records the call has added to the store.
CreatedBy(c) == (DOMAIN transactions) \ (DOMAIN c.before.transactions)

\* C1: Deposit(w, a) with a > 0 on an existing ACTIVE wallet, whatever its
\* balance, with every store call succeeding, returns a DEPOSIT transaction of
\* amount a in status COMPLETED, and the stored balance is the balance before
\* the call plus a.
C1_DepositCredits ==
    \A p \in SeqProcs :
        LET c == call[p] IN
        (/\ Returned(p, "Deposit")
         /\ c.failed = {}
         /\ c.amt > 0
         /\ Existed(c, c.w)
         /\ ActiveBefore(c, c.w))
        => /\ c.err = "nil"
           /\ Result(c).Type = "DEPOSIT"
           /\ Result(c).Amount = c.amt
           /\ Result(c).Status = "COMPLETED"
           /\ wallets[c.w].Balance = BalanceBefore(c, c.w) + c.amt

\* C2: Transfer(src, dst, a) between two distinct existing ACTIVE wallets of
\* one currency, a > 0, balance(src) >= a, whatever the balance of dst, with
\* every store call succeeding, returns one TRANSFER transaction of amount a
\* from src to dst in status COMPLETED; src has lost a, dst has gained a, and
\* the sum of the two balances is what it was.
C2_TransferMoves ==
    \A p \in SeqProcs :
        LET c == call[p] IN
        (/\ Returned(p, "Transfer")
         /\ c.failed = {}
         /\ c.amt > 0
         /\ c.w # c.to
         /\ Existed(c, c.w) /\ Existed(c, c.to)
         /\ ActiveBefore(c, c.w) /\ ActiveBefore(c, c.to)
         /\ c.before.wallets[c.w].CurrencyCode = c.before.wallets[c.to].CurrencyCode
         /\ BalanceBefore(c, c.w) >= c.amt)
        => /\ c.err = "nil"
           /\ Cardinality(CreatedBy(c)) = 1
           /\ Result(c).Type = "TRANSFER"
           /\ Result(c).Amount = c.amt
           /\ Result(c).Status = "COMPLETED"
           /\ Result(c).WalletID = c.w
           /\ Result(c).ToWalletID = c.to
           /\ wallets[c.w].Balance = BalanceBefore(c, c.w) - c.amt
           /\ wallets[c.to].Balance = BalanceBefore(c, c.to) + c.amt
           /\ wallets[c.w].Balance + wallets[c.to].Balance
                 = BalanceBefore(c, c.w) + BalanceBefore(c, c.to)

\* C3: Withdraw(w, a) with 0 < a <= balance(w) on an existing ACTIVE wallet,
\* with every store call succeeding, returns a WITHDRAWAL transaction of
\* amount a in status COMPLETED, stored as such, and the stored balance is the
\* balance before the call minus a.
C3_WithdrawDebits ==
    \A p \in SeqProcs :
        LET c == call[p] IN
        (/\ Returned(p, "Withdraw")
         /\ c.failed = {}
         /\ c.amt > 0
         /\ Existed(c, c.w)
         /\ ActiveBefore(c, c.w)
         /\ c.amt <= BalanceBefore(c, c.w))
        => /\ c.err = "nil"
           /\ Result(c).Type = "WITHDRAWAL"
           /\ Result(c).Amount = c.amt
           /\ Result(c).Status = "COMPLETED"
           /\ CreatedBy(c) = {Result(c).ID}
           /\ transactions[Result(c).ID] = Result(c)
           /\ wallets[c.w].Balance = BalanceBefore(c, c.w) - c.amt

\* A Withdraw of the whole balance has succeeded and left the wallet empty,
\* after an earlier Withdraw that succeeded too.
C3_Witness ==
    \E p \in SeqProcs :
        LET c == call[p] IN
        /\ Returned(p, "Withdraw")
        /\ c.failed = {}
        /\ c.err = "nil"
        /\ c.amt = MaxAmount
        /\ BalanceBefore(c, c.w) = c.amt
        /\ wallets[c.w].Balance = 0
        /\ \E id \in DOMAIN c.before.transactions :
              /\ c.before.transactions[id].Type = "WITHDRAWAL"
              /\ c.before.transactions[id].Status = "COMPLETED"

\* C4: Withdraw(w, a) with a > balance(w) on an existing wallet (the read of
\* w returning it) fails with InsufficientBalance; at no step of the call has
\* the stored balance changed or a transaction record been created.
C4_WithdrawInsufficient ==
    \A p \in SeqProcs :
        LET c == call[p] IN
        (/\ c.op = "Withdraw"
         /\ Existed(c, c.w)
         /\ c.amt > BalanceBefore(c, c.w))
        => /\ wallets = c.before.wallets
           /\ transactions = c.before.transactions
           /\ "find" \notin c.failed => /\ c.pc = "done"
                                        /\ c.err = "ErrInsufficientBalance"

\* A Withdraw of more than the balance has been refused, on a wallet with
\* money in it and with an earlier transaction in the store.
C4_Witness ==
    \E p \in SeqProcs :
        LET c == call[p] IN
        /\ Returned(p, "Withdraw")
        /\ Existed(c, c.w)
        /\ BalanceBefore(c, c.w) > 0
        /\ c.amt > BalanceBefore(c, c.w)
        /\ c.err = "ErrInsufficientBalance"
        /\ transactions # <<>>

\* C5: a stored transaction whose status is COMPLETED or FAILED keeps that
\* status in every later state.
C5_TerminalStatus ==
    [][\A id \in DOMAIN transactions :
          transactions[id].Status \in {"COMPLETED", "FAILED"}
              => transactions'[id].Status = transactions[id].Status]_vars

\* C6: under every interleaving of Deposit, Withdraw, Transfer (with its
\* compensating credit) and VerifyPayment calls, and with store calls failing,
\* every stored balance is at least 0.  Amounts and balances stay far below
\* the range of int, so no addition wraps around.
C6_BalanceNonNegative ==
    \A id \in DOMAIN wallets : wallets[id].Balance >= 0

\* Two calls that ran side by side have both taken money out of wallet 1 and
\* left it empty: a Transfer whose destination save failed and that went
\* through its compensating credit, and a Withdraw that succeeded.
C6_Witness ==
    \E p \in Procs, q \in Procs :
        /\ Returned(p, "Transfer")
        /\ "saveTo" \in call[p].failed
        /\ Returned(q, "Withdraw")
        /\ call[q].err = "nil"
        /\ call[q].w = call[p].w
        /\ call[q].before.transactions = call[p].before.transactions
        /\ wallets[call[p].w].Balance = 0

\* The amounts of the COMPLETED transactions among ids.
RECURSIVE SumCompleted(_)
SumCompleted(ids) ==
    IF ids = {} THEN 0
    ELSE LET id == CHOOSE x \in ids : TRUE IN
         (IF transactions[id].Status = "COMPLETED" THEN transactions[id].Amount ELSE 0)
             + SumCompleted(ids \ {id})

\* Deposits to w and transfers into w; withdrawals from w and transfers out.
Credits(w) ==
    SumCompleted({id \in DOMAIN transactions :
        \/ transactions[id].Type = "DEPOSIT" /\ transactions[id].WalletID = w
        \/ transactions[id].Type = "TRANSFER" /\ transactions[id].ToWalletID = w})
Debits(w) ==
    SumCompleted({id \in DOMAIN transactions :
        \/ transactions[id].Type = "WITHDRAWAL" /\ transactions[id].WalletID = w
        \/ transactions[id].Type = "TRANSFER" /\ transactions[id].WalletID = w})

\* C7: with every store call succeeding, once all the concurrently running
\* Deposit, Withdraw and Transfer calls have returned, each stored balance is
\* the initial balance plus the COMPLETED credits minus the COMPLETED debits.
C7_BalanceMatchesLedger ==
    (/\ \A p \in Procs : call[p].pc \in {"idle", "done"}
     /\ \A p \in Procs : call[p].op # "VerifyPayment"
     /\ \A id \in DOMAIN payments : payments[id].Status = "PENDING"
     /\ faults = 0)
    => \A w \in DOMAIN wallets :
          wallets[w].Balance = MaxInitBalance + Credits(w) - Debits(w)

\* C8: a Transfer whose source save succeeded and whose destination save then
\* failed, every other store call succeeding, returns with the stored source
\* balance as before the call, the destination unchanged and the transaction
\* stored as FAILED.
C8_TransferCompensates ==
    \A p \in SeqProcs :
        LET c == call[p] IN
        (/\ Returned(p, "Transfer")
         /\ c.w # c.to
         /\ c.failed = {"saveTo"})
        => /\ c.err # "nil"
           /\ wallets[c.w].Balance = BalanceBefore(c, c.w)
           /\ wallets[c.to] = c.before.wallets[c.to]
           /\ transactions[c.tx.ID].Status = "FAILED"

\* C9: when Deposit(w, a) returns an error, the stored balance of w is what
\* it was before the call.
C9_DepositErrorKeepsBalance ==
    \A p \in SeqProcs :
        LET c == call[p] IN
        (/\ Returned(p, "Deposit")
         /\ c.err # "nil"
         /\ Existed(c, c.w))
        => wallets[c.w].Balance = BalanceBefore(c, c.w)

\* C10: when Deposit, Withdraw or Transfer returns an error after it has
\* stored its PENDING transaction, and no update of the transaction store has
\* failed, the stored status of that transaction is FAILED.
C10_ErrorMarksFailed ==
    \A p \in SeqProcs :
        LET c == call[p] IN
        (/\ c.op \in {"Deposit", "Withdraw", "Transfer"}
         /\ c.pc = "done"
         /\ c.err # "nil"
         /\ c.tx.ID # 0
         /\ "update" \notin c.failed)
        => transactions[c.tx.ID].Status = "FAILED"

\* A Transfer whose destination save failed has returned its error, its
\* transaction stored as FAILED.
C10_Witness ==
    \E p \in SeqProcs :
        LET c == call[p] IN
        /\ c.pc = "done"
        /\ c.err # "nil"
        /\ c.tx.ID # 0
        /\ c.op = "Transfer"
        /\ "saveTo" \in c.failed
        /\ transactions[c.tx.ID].Status = "FAILED"

\* C11: a Transfer with a > 0 between two existing wallets whose currency
\* codes differ fails (with CurrencyMismatch when both reads return); at no
\* step of the call has a stored balance changed or a transaction record been
\* created.
C11_CurrencyMismatch ==
    \A p \in SeqProcs :
        LET c == call[p] IN
        (/\ c.op = "Transfer"
         /\ c.amt > 0
         /\ Existed(c, c.w) /\ Existed(c, c.to)
         /\ c.before.wallets[c.w].CurrencyCode # c.before.wallets[c.to].CurrencyCode)
        => /\ wallets = c.before.wallets
           /\ transactions = c.before.transactions
           /\ c.pc \in {"findTo", "done"}
           /\ c.pc = "done" => /\ c.err # "nil"
                                /\ c.failed = {} => c.err = "ErrCurrencyMismatch"

\* A Transfer of an amount the source could pay has been refused for the
\* currencies, both wallets ACTIVE and funded.
C11_Witness ==
    \E p \in SeqProcs :
        LET c == call[p] IN
        /\ Returned(p, "Transfer")
        /\ c.err = "ErrCurrencyMismatch"
        /\ ActiveBefore(c, c.w) /\ ActiveBefore(c, c.to)
        /\ BalanceBefore(c, c.w) >= c.amt
        /\ BalanceBefore(c, c.to) >= c.amt
        /\ wallets = c.before.wallets

\* The operations that take an amount.
AmountOps == {"Deposit", "Withdraw", "Transfer", "ProcessPayment", "CreateTransaction"}

\* C12: Deposit, Withdraw, Transfer, ProcessPayment and CreateTransaction
\* called with an amount <= 0 fail with InvalidAmount at once, whatever the
\* wallet ids; no transaction or payment record is created and no stored
\* wallet changes.
C12_InvalidAmount ==
    \A p \in SeqProcs :
        LET c == call[p] IN
        (c.op \in AmountOps /\ c.amt <= 0)
        => /\ c.pc = "done"
           /\ c.err = "ErrInvalidAmount"
           /\ c.failed = {}
           /\ wallets = c.before.wallets
           /\ transactions = c.before.transactions
           /\ payments = c.before.payments

\* CreateTransaction has refused a record of amount 0 for a wallet that is
\* not stored, with a transaction and a payment already in the store.
C12_Witness ==
    \E p \in SeqProcs :
        LET c == call[p] IN
        /\ Returned(p, "CreateTransaction")
        /\ c.amt = 0
        /\ ~Existed(c, c.w)
        /\ c.err = "ErrInvalidAmount"
        /\ DOMAIN transactions # {}
        /\ DOMAIN payments # {}

\* The wallets of user u in currency cur among ws.
WalletsOf(ws, u, cur) ==
    {id \in DOMAIN ws : ws[id].UserID = u /\ ws[id].CurrencyCode = cur}

\* C13: CreateWallet(u, c) for a user who already has a wallet of currency c,
\* ACTIVE or not, fails (with WalletAlreadyExists when both reads return) and
\* stores no wallet; and the store never holds two wallets for one user and
\* currency.
C13_OneWalletPerCurrency ==
    /\ \A p \in SeqProcs :
        LET c == call[p] IN
        (c.op = "CreateWallet" /\ WalletsOf(c.before.wallets, c.user, c.currency) # {})
        => /\ wallets = c.before.wallets
           /\ c.pc = "done" => /\ c.err # "nil"
                               /\ c.failed = {} => c.err = "ErrWalletAlreadyExists"
    /\ \A u \in UserInputs, cur \in Currencies :
          Cardinality(WalletsOf(wallets, u, cur)) <= 1

\* A second wallet of the same currency has been refused to a user whose
\* wallet of that currency is INACTIVE.
C13_Witness ==
    \E p \in SeqProcs :
        LET c == call[p] IN
        /\ Returned(p, "CreateWallet")
        /\ c.err = "ErrWalletAlreadyExists"
        /\ \E id \in WalletsOf(c.before.wallets, c.user, c.currency) :
              c.before.wallets[id].Status = "INACTIVE"
        /\ wallets = c.before.wallets

\* C14: CreateWallet(u, c) for a user id that does not resolve fails (with
\* UserNotFound when the user read returns) and stores no wallet; a CreateWallet
\* that succeeds has stored, and returns, one new wallet of user u, currency c,
\* balance 0 and status ACTIVE, every wallet stored before being as it was.
C14_CreateWallet ==
    \A p \in SeqProcs :
        LET c == call[p] IN
        /\ (c.op = "CreateWallet" /\ ~UserExists(c.user))
           => /\ wallets = c.before.wallets
              /\ c.pc = "done"
              /\ c.err # "nil"
              /\ c.failed = {} => c.err = "ErrUserNotFound"
        /\ (Returned(p, "CreateWallet") /\ c.err = "nil")
           => /\ c.wallet.ID \notin DOMAIN c.before.wallets
              /\ DOMAIN wallets = (DOMAIN c.before.wallets) \cup {c.wallet.ID}
              /\ wallets[c.wallet.ID] = c.wallet
              /\ c.wallet.UserID = c.user
              /\ c.wallet.CurrencyCode = c.currency
              /\ c.wallet.Balance = 0
              /\ c.wallet.Status = "ACTIVE"
              /\ \A id \in DOMAIN c.before.wallets : wallets[id] = c.before.wallets[id]

\* A CreateWallet has stored a third wallet, empty and ACTIVE, next to two
\* funded ones.
C14_Witness ==
    \E p \in SeqProcs :
        LET c == call[p] IN
        /\ Returned(p, "CreateWallet")
        /\ c.err = "nil"
        /\ c.wallet.ID = NWallets + 1
        /\ \A id \in DOMAIN c.before.wallets : c.before.wallets[id].Balance > 0
        /\ wallets[c.wallet.ID].Balance = 0

\* C15: Deposit(w, a) with a > 0 on an existing wallet that is not ACTIVE fails
\* with WalletNotActive, creates no transaction and leaves the balance as it
\* was; Withdraw(w, a) with 0 < a <= balance(w) on such a wallet fails with
\* WalletNotActive and leaves the balance as it was (the errors being those
\* of the store when a store call of the method fails first).
C15_WalletNotActive ==
    \A p \in SeqProcs :
        LET c == call[p] IN
        /\ (/\ c.op = "Deposit"
            /\ c.amt > 0
            /\ Existed(c, c.w)
            /\ ~ActiveBefore(c, c.w))
           => /\ wallets = c.before.wallets
              /\ transactions = c.before.transactions
              /\ c.pc = "done"
              /\ c.err # "nil"
              /\ c.failed = {} => c.err = "ErrWalletNotActive"
        /\ (/\ c.op = "Withdraw"
            /\ c.amt > 0
            /\ Existed(c, c.w)
            /\ c.amt <= BalanceBefore(c, c.w)
            /\ ~ActiveBefore(c, c.w))
           => /\ wallets = c.before.wallets
              /\ c.pc = "done" =>
                    /\ c.err # "nil"
                    /\ c.failed \cap {"find", "create"} = {}
                          => c.err = "ErrWalletNotActive"

\* A Withdraw of an amount the INACTIVE wallet holds has been refused with
\* WalletNotActive, its transaction stored as FAILED.
C15_Witness ==
    \E p \in SeqProcs :
        LET c == call[p] IN
        /\ Returned(p, "Withdraw")
        /\ Existed(c, c.w)
        /\ c.tx.ID \in DOMAIN transactions
        /\ transactions[c.tx.ID].Status = "FAILED"
        /\ c.amt > 0
        /\ c.amt <= BalanceBefore(c, c.w)
        /\ ~ActiveBefore(c, c.w)
        /\ c.err = "ErrWalletNotActive"
        /\ wallets = c.before.wallets

\* The transactions that were PENDING and more than ReconcileMinutes old when
\* the call began.
StaleBefore(c) ==
    {id \in DOMAIN c.before.transactions :
        /\ c.before.transactions[id].Status = "PENDING"
        /\ c.before.now - c.before.transactions[id].CreatedAt > ReconcileMinutes}

\* C16: with every store call succeeding, ReconcileFailedTransactions returns
\* success having set to FAILED exactly the transactions that were PENDING and
\* created more than 30 minutes before the call; every other transaction
\* (PENDING for 30 minutes or less, COMPLETED, FAILED) and every wallet is as
\* it was.
C16_ReconcileExactlyStale ==
    \A p \in SeqProcs :
        LET c == call[p] IN
        (Returned(p, "Reconcile") /\ c.failed = {})
        => /\ c.err = "nil"
           /\ DOMAIN transactions = DOMAIN c.before.transactions
           /\ \A id \in DOMAIN transactions :
                 transactions[id] =
                    IF id \in StaleBefore(c)
                    THEN [c.before.transactions[id] EXCEPT !.Status = "FAILED"]
                    ELSE c.before.transactions[id]
           /\ wallets = c.before.wallets
           /\ payments = c.before.payments

\* A sweep has failed one stale PENDING transaction and left alone one that
\* was PENDING for exactly 30 minutes.
C16_Witness ==
    \E p \in SeqProcs :
        LET c == call[p] IN
        /\ Returned(p, "Reconcile")
        /\ c.failed = {}
        /\ \E id \in StaleBefore(c) : transactions[id].Status = "FAILED"
        /\ \E id \in DOMAIN transactions :
              /\ transactions[id].Status = "PENDING"
              /\ c.before.now - transactions[id].CreatedAt = ReconcileMinutes

\* The stale transactions of a sweep that are not FAILED in the store.
StaleLeft(c) == {id \in StaleBefore(c) : transactions[id].Status # "FAILED"}

\* C17: ReconcileFailedTransactions never aborts early: when it returns after
\* a successful scan, every stale PENDING transaction has been attempted, the
\* ones left not FAILED are as many as the status updates that failed, and the
\* call returns an error exactly when an update failed; a failed scan returns
\* an error too.
C17_ReconcileNeverAborts ==
    \A p \in SeqProcs :
        LET c == call[p] IN
        Returned(p, "Reconcile")
        => /\ c.err # "nil" <=> (c.nfailed > 0 \/ "find" \in c.failed)
           /\ "find" \notin c.failed
              => /\ c.pending = {}
                 /\ Cardinality(StaleLeft(c)) = c.nfailed
                 /\ c.nfailed > 0 <=> "updateStatus" \in c.failed

\* A sweep over two stale PENDING transactions has returned an error: one
\* update failed, the other transaction is FAILED.
C17_Witness ==
    \E p \in SeqProcs :
        LET c == call[p] IN
        /\ Returned(p, "Reconcile")
        /\ c.err = "ErrReconcileFailed"
        /\ Cardinality(StaleBefore(c)) = 2
        /\ Cardinality(StaleLeft(c)) = 1
        /\ c.nfailed = 1

\* ------------------------------------------------------ the scheduled sweep
\* Request task 1 serves the live traffic; task 2 belongs to the scheduler
\* that invokes ReconcileFailedTransactions periodically.
Worker == 1
Sweeper == 2

\* The clock keeps advancing for two more ticks after the last request step,
\* so that every stored transaction becomes older than the staleness window.
SweepMaxTime == MaxTime + 2 * TickMinutes

Tick_Sweep ==
    /\ now < SweepMaxTime
    /\ now' = now + TickMinutes
    /\ UNCHANGED <<wallets, transactions, txNextID, payments, payNextID, call, faults>>
    /\ UNCHANGED walletNextID
    /\ cache' = CacheExpire(now')
    /\ UNCHANGED consumer

\* The process dies, or the caller's context is cancelled, between two store
\* calls of an operation: what was stored stays, the rest never runs.
Abandon(p) ==
    /\ call[p].pc \notin {"idle", "done"}
    /\ call' = [call EXCEPT ![p] = Idle]
    /\ UNCHANGED <<wallets, transactions, txNextID, payments, payNextID, now, faults>>
    /\ UNCHANGED walletNextID
    /\ UNCHANGED cache
    /\ UNCHANGED consumer

\* The transactions live traffic persists as PENDING.
WorkerNext(p) ==
    \/ \E a \in LifecycleAmounts : Deposit_Begin(p, 1, a)
    \/ DepositSteps(p)
    \/ \E a \in LifecycleAmounts : Withdraw_Begin(p, 1, a)
    \/ WithdrawSteps(p)
    \/ \E a \in LifecycleAmounts : Transfer_Begin(p, 1, 2, a)
    \/ TransferSteps(p)
    \/ \E a \in LifecycleAmounts, pr \in ProviderInputs :
          ProcessPayment_Begin(p, 1, a, pr)
    \/ ProcessPaymentSteps(p)
    \/ \E t \in {x \in CreateTransactionInputs(LifecycleAmounts) :
                    x.ID = 0 /\ x.WalletID = 1 /\ x.Type = "DEPOSIT" /\ x.ToWalletID = 0} :
          CreateTransaction_Begin(p, t)
    \/ CreateTransaction_FindTo(p)
    \/ CreateTransaction_Create(p)
    \/ Return(p)

SweeperNext(p) ==
    \/ Reconcile_Begin(p)
    \/ Reconcile_Loop(p)
    \/ Return(p)

NextSweep ==
    \/ now <= MaxTime /\ WorkerNext(Worker)
    \/ Abandon(Worker)
    \/ SweeperNext(Sweeper)
    \/ Tick_Sweep

\* Time advances and the scheduler keeps running the sweep to its end; the
\* store fails at most MaxFaults times, so its updates eventually succeed.
\* Live traffic has no fairness: a request may stop anywhere.
SpecSweep ==
    /\ InitLifecycle
    /\ [][NextSweep]_vars
    /\ WF_vars(Tick_Sweep)
    /\ WF_vars(SweeperNext(Sweeper))

IsPendingTx(id) ==
    id \in DOMAIN transactions /\ transactions[id].Status = "PENDING"
IsSettledTx(id) ==
    id \in DOMAIN transactions /\ transactions[id].Status \in {"COMPLETED", "FAILED"}

PaymentStatusBefore(c) ==
    IF c.payment.ID \in DOMAIN c.before.payments
    THEN c.before.payments[c.payment.ID].Status
    ELSE ""

\* C19: VerifyPayment on a payment stored as COMPLETED or CANCELLED is a
\* no-op: once the payment is read the call is over, it never reaches the
\* gateway call, it returns the stored payment without an error, and no stored
\* payment, transaction or wallet has changed.
C19_VerifyPaymentNoOp ==
    \A p \in SeqProcs :
        LET c == call[p] IN
        (/\ c.op = "VerifyPayment"
         /\ c.pc # "idle"
         /\ PaymentStatusBefore(c) \in {"COMPLETED", "CANCELLED"}
         /\ "find" \notin c.failed)
        => /\ c.pc = "done"
           /\ c.err = "nil"
           /\ c.payment = c.before.payments[c.payment.ID]
           /\ payments = c.before.payments
           /\ transactions = c.before.transactions
           /\ wallets = c.before.wallets

\* VerifyPayment has returned a payment that was already COMPLETED while its
\* transaction is still PENDING.
C19_Witness ==
    \E p \in SeqProcs :
        LET c == call[p] IN
        /\ Returned(p, "VerifyPayment")
        /\ PaymentStatusBefore(c) = "COMPLETED"
        /\ c.failed = {}
        /\ c.payment.TransactionID \in DOMAIN transactions
        /\ transactions[c.payment.TransactionID].Status = "PENDING"

\* C20: VerifyPayment on a PENDING payment for which the gateway reports
\* COMPLETED, with every store call succeeding and no concurrent operation,
\* returns with the payment COMPLETED, the linked transaction COMPLETED and
\* the wallet's stored balance increased by exactly the transaction amount,
\* whatever the wallet's balance and status.
C20_VerifyPaymentCredits ==
    \A p \in SeqProcs :
        LET c == call[p]
            tid == c.payment.TransactionID
        IN
        (/\ Returned(p, "VerifyPayment")
         /\ PaymentStatusBefore(c) = "PENDING"
         /\ c.status = "COMPLETED"
         /\ c.failed = {}
         /\ tid \in DOMAIN c.before.transactions)
        => LET w == c.before.transactions[tid].WalletID IN
           /\ payments[c.payment.ID].Status = "COMPLETED"
           /\ transactions[tid].Status = "COMPLETED"
           /\ wallets[w].Balance
                 = c.before.wallets[w].Balance + c.before.transactions[tid].Amount

\* The stored transactions, the one linked to the call's payment set to st.
TransactionsWithLinked(c, st) ==
    [id \in DOMAIN c.before.transactions |->
        IF id = c.before.payments[c.payment.ID].TransactionID
        THEN [c.before.transactions[id] EXCEPT !.Status = st]
        ELSE c.before.transactions[id]]

\* The stored payments, the call's payment set to st.
PaymentsWithStatus(c, st) ==
    [c.before.payments EXCEPT ![c.payment.ID].Status = st]

\* C21: VerifyPayment on a PENDING payment, every store call succeeding: when
\* the gateway reports FAILED or EXPIRED the payment becomes FAILED, when it
\* reports CANCELLED or REFUNDED the payment becomes CANCELLED, and in these
\* four cases the linked transaction becomes FAILED and no wallet changes;
\* when it reports PENDING or an unknown status nothing stored changes.
C21_VerifyPaymentNotCompleted ==
    \A p \in SeqProcs :
        LET c == call[p] IN
        (/\ Returned(p, "VerifyPayment")
         /\ PaymentStatusBefore(c) = "PENDING"
         /\ c.failed = {}
         /\ c.gateway \in GatewayStatuses \ {"COMPLETED"})
        => /\ wallets = c.before.wallets
           /\ c.err = "nil"
           /\ CASE c.gateway \in {"FAILED", "EXPIRED"} ->
                     /\ payments = PaymentsWithStatus(c, "FAILED")
                     /\ transactions = TransactionsWithLinked(c, "FAILED")
                [] c.gateway \in {"CANCELLED", "REFUNDED"} ->
                     /\ payments = PaymentsWithStatus(c, "CANCELLED")
                     /\ transactions = TransactionsWithLinked(c, "FAILED")
                [] OTHER ->
                     /\ payments = c.before.payments
                     /\ transactions = c.before.transactions

\* The gateway reported EXPIRED for a PENDING payment: the payment and its
\* PENDING transaction are now FAILED.
C21_Witness ==
    \E p \in SeqProcs :
        LET c == call[p] IN
        /\ Returned(p, "VerifyPayment")
        /\ PaymentStatusBefore(c) = "PENDING"
        /\ c.failed = {}
        /\ c.gateway = "EXPIRED"
        /\ payments[c.payment.ID].Status = "FAILED"
        /\ c.before.transactions[c.payment.TransactionID].Status = "PENDING"
        /\ transactions[c.payment.TransactionID].Status = "FAILED"

\* C22: CancelPayment on a payment stored as COMPLETED, FAILED or CANCELLED
\* fails: once the payment is read the call is over with an error, the
\* gateway's CancelPayment is never called, and no stored payment, transaction
\* or wallet has changed.
C22_CancelNotPending ==
    \A p \in SeqProcs :
        LET c == call[p] IN
        (/\ c.op = "CancelPayment"
         /\ c.pc # "idle"
         /\ PaymentStatusBefore(c) \in {"COMPLETED", "FAILED", "CANCELLED"}
         /\ "find" \notin c.failed)
        => /\ c.pc = "done"
           /\ c.err = "ErrCannotCancel"
           /\ c.gateway = ""
           /\ payments = c.before.payments
           /\ transactions = c.before.transactions
           /\ wallets = c.before.wallets

\* CancelPayment has refused a COMPLETED payment whose wallet was credited.
C22_Witness ==
    \E p \in SeqProcs :
        LET c == call[p] IN
        /\ Returned(p, "CancelPayment")
        /\ PaymentStatusBefore(c) = "COMPLETED"
        /\ c.err = "ErrCannotCancel"
        /\ transactions[c.payment.TransactionID].Status = "COMPLETED"

\* C23: CancelPayment on a PENDING payment, every store call succeeding:
\* nothing is written before the gateway's CancelPayment has answered; when
\* the gateway fails the call returns an error with the payment still PENDING
\* and its transaction unchanged; when it succeeds the call returns with the
\* payment CANCELLED and the linked transaction FAILED; no wallet changes.
C23_CancelPending ==
    \A p \in SeqProcs :
        LET c == call[p] IN
        (/\ c.op = "CancelPayment"
         /\ c.pc # "idle"
         /\ PaymentStatusBefore(c) = "PENDING"
         /\ c.failed = {})
        => /\ wallets = c.before.wallets
           /\ c.gateway = ""
              => /\ payments = c.before.payments
                 /\ transactions = c.before.transactions
           /\ c.gateway = "error"
              => /\ c.pc = "done"
                 /\ c.err = "ErrGateway"
                 /\ payments = c.before.payments
                 /\ transactions = c.before.transactions
           /\ (c.gateway = "ok" /\ c.pc = "done")
              => /\ c.err = "nil"
                 /\ payments = PaymentsWithStatus(c, "CANCELLED")
                 /\ transactions = TransactionsWithLinked(c, "FAILED")

\* A PENDING payment has been cancelled at the gateway: it is CANCELLED and
\* its PENDING transaction is FAILED.
C23_Witness ==
    \E p \in SeqProcs :
        LET c == call[p] IN
        /\ Returned(p, "CancelPayment")
        /\ PaymentStatusBefore(c) = "PENDING"
        /\ c.failed = {}
        /\ c.gateway = "ok"
        /\ payments[c.payment.ID].Status = "CANCELLED"
        /\ c.before.transactions[c.payment.TransactionID].Status = "PENDING"
        /\ transactions[c.payment.TransactionID].Status = "FAILED"

\* C24: when the gateway's ProcessPayment call fails inside ProcessPayment,
\* every store call succeeding, the call returns with the stored payment
\* FAILED, the stored transaction FAILED, every wallet as it was, and an error
\* of kind PaymentGatewayFailed.
C24_GatewayFailure ==
    \A p \in SeqProcs :
        LET c == call[p] IN
        (/\ Returned(p, "ProcessPayment")
         /\ c.gateway = "error"
         /\ c.failed = {})
        => /\ payments[c.payment.ID].Status = "FAILED"
           /\ transactions[c.tx.ID].Status = "FAILED"
           /\ wallets = c.before.wallets
           /\ c.err = "ErrPaymentGatewayFailed"

\* C25: ProcessPayment with a positive amount and an unknown wallet id, or a
\* provider without a registered gateway, fails before any persistence: once
\* the wallet is looked up the call is over with an error, no transaction and
\* no payment has been created and no gateway has been called.
C25_ProcessPaymentRefused ==
    \A p \in SeqProcs :
        LET c == call[p] IN
        (/\ c.op = "ProcessPayment"
         /\ c.pc # "idle"
         /\ c.amt > 0
         /\ "find" \notin c.failed
         /\ \/ c.w \notin DOMAIN c.before.wallets
            \/ c.payment.Provider \notin Gateways)
        => /\ c.pc = "done"
           /\ c.err = IF c.w \notin DOMAIN c.before.wallets
                      THEN "ErrWalletNotFound" ELSE "ErrProviderNotSupported"
           /\ c.gateway = ""
           /\ transactions = c.before.transactions
           /\ payments = c.before.payments
           /\ wallets = c.before.wallets

\* ProcessPayment for an existing wallet has been refused because the
\* provider has no gateway.
C25_Witness ==
    \E p \in SeqProcs :
        LET c == call[p] IN
        /\ Returned(p, "ProcessPayment")
        /\ c.amt > 0
        /\ c.w \in DOMAIN c.before.wallets
        /\ c.payment.Provider \notin Gateways
        /\ c.err = "ErrProviderNotSupported"

\* ------------------------------------------------------ payments on their own
\* ProcessPayment called again and again, one call at a time, with known and
\* unknown wallets and providers and with amounts from zero up.
NextPayments ==
    \E p \in SeqProcs :
        \/ \E w \in WalletInputs, a \in AmountInputs, pr \in ProviderInputs :
              ProcessPayment_Begin(p, w, a, pr)
        \/ ProcessPaymentSteps(p)
        \/ Return(p)

SpecPayments == Init /\ [][NextPayments]_vars

\* C26: after any sequence of ProcessPayment calls every stored payment
\* references an existing transaction of type DEPOSIT with the same amount, no
\* two payments reference the same transaction, and a successful
\* ProcessPayment leaves its new payment and its transaction PENDING and every
\* wallet balance as it was.
C26_PaymentLinks ==
    /\ \A id \in DOMAIN payments :
          /\ payments[id].TransactionID \in DOMAIN transactions
          /\ transactions[payments[id].TransactionID].Type = "DEPOSIT"
          /\ transactions[payments[id].TransactionID].Amount = payments[id].Amount
    /\ \A i, j \in DOMAIN payments :
          i # j => payments[i].TransactionID # payments[j].TransactionID
    /\ \A p \in SeqProcs :
          LET c == call[p] IN
          (Returned(p, "ProcessPayment") /\ c.err = "nil")
          => /\ c.payment.ID \in DOMAIN payments \ DOMAIN c.before.payments
             /\ payments[c.payment.ID].Status = "PENDING"
             /\ payments[c.payment.ID].TransactionID = c.tx.ID
             /\ c.tx.ID \in DOMAIN transactions \ DOMAIN c.before.transactions
             /\ transactions[c.tx.ID].Status = "PENDING"
             /\ transactions[c.tx.ID].WalletID = c.w
             /\ wallets = c.before.wallets

\* A second ProcessPayment has succeeded: two PENDING payments reference two
\* transactions.
C26_Witness ==
    \E p \in SeqProcs :
        LET c == call[p] IN
        /\ Returned(p, "ProcessPayment")
        /\ c.err = "nil"
        /\ Cardinality(DOMAIN payments) = 2
        /\ Cardinality({payments[id].TransactionID : id \in DOMAIN payments}) = 2
        /\ \A id \in DOMAIN payments : payments[id].Status = "PENDING"

PaymentTerminal == {"COMPLETED", "FAILED", "CANCELLED"}

\* Complete, Fail and Cancel applied to pm: a PENDING payment takes the new
\* status, any other is returned unchanged with AlreadyProcessed.
TransitionsGuarded(pm) ==
    \A t \in PaymentTerminal :
        LET r == CASE t = "COMPLETED" -> PaymentComplete(pm)
                   [] t = "FAILED" -> PaymentFail(pm)
                   [] OTHER -> PaymentCancel(pm)
        IN IF pm.Status = "PENDING"
           THEN r.err = "nil" /\ r.payment = [pm EXCEPT !.Status = t]
           ELSE r.err = "ErrPaymentAlreadyProcessed" /\ r.payment = pm

\* C27: Payment.Complete, Fail and Cancel succeed only on a PENDING payment
\* and otherwise return AlreadyProcessed leaving it unchanged; and in every
\* step of non-overlapping calls a stored payment that is COMPLETED, FAILED or
\* CANCELLED keeps its status, whatever the gateway reports.
C27_PaymentTerminal ==
    [][/\ \A id \in DOMAIN payments : TransitionsGuarded(payments[id])
       /\ \A id \in DOMAIN payments :
             payments[id].Status \in PaymentTerminal
             => /\ id \in DOMAIN payments'
                /\ payments'[id].Status = payments[id].Status]_vars

\* VerifyPayment on a FAILED payment for which the gateway now reports
\* COMPLETED has returned AlreadyProcessed; the payment is still FAILED.
C27_Witness ==
    \E p \in SeqProcs :
        LET c == call[p] IN
        /\ Returned(p, "VerifyPayment")
        /\ PaymentStatusBefore(c) = "FAILED"
        /\ c.gateway = "COMPLETED"
        /\ c.err = "ErrPaymentAlreadyProcessed"
        /\ payments[c.payment.ID].Status = "FAILED"

\* ------------------------------------------------------- reads beside writes
\* The five read operations, called one at a time between deposits and
\* transfers, with known and unknown ids.
ReadOps == {"GetWallet", "GetBalance", "GetWalletsByUserID",
            "GetTransactionHistory", "GetTransaction"}

NextReads ==
    \/ \E p \in SeqProcs :
        \/ \E op \in {"GetWallet", "GetBalance"}, w \in WalletInputs :
              GetWallet_Begin(p, op, w)
        \/ \E u \in UserInputs : GetWalletsByUserID_Begin(p, u)
        \/ \E w \in WalletInputs, l \in Limits, o \in Offsets :
              GetTransactionHistory_Begin(p, w, l, o)
        \/ \E id \in TxInputs : GetTransaction_Begin(p, id)
        \/ ReadSteps(p)
        \/ \E a \in LifecycleAmounts : Deposit_Begin(p, 1, a)
        \/ DepositSteps(p)
        \/ \E a \in LifecycleAmounts : Transfer_Begin(p, 1, 2, a)
        \/ TransferSteps(p)
        \/ Return(p)
    \/ Tick

SpecReads == InitLifecycle /\ [][NextReads]_vars

\* C28: GetBalance, GetWallet, GetWalletsByUserID, GetTransactionHistory and
\* GetTransaction never change a stored wallet or transaction, for every
\* argument, unknown ids included: at every step of such a call the stores are
\* as they were when it began.
C28_ReadsChangeNothing ==
    \A p \in SeqProcs :
        LET c == call[p] IN
        (c.op \in ReadOps /\ c.pc # "idle")
        => /\ wallets = c.before.wallets
           /\ transactions = c.before.transactions
           /\ payments = c.before.payments

\* GetWallet for an unknown id has returned WalletNotFound while an earlier
\* read has left a transaction in the cache.
C28_Witness ==
    \E p \in SeqProcs :
        LET c == call[p] IN
        /\ Returned(p, "GetWallet")
        /\ c.w \notin DOMAIN wallets
        /\ c.err = "ErrWalletNotFound"
        /\ DOMAIN cache.transaction # {}

\* ------------------------------------------------------- the cache and writes
\* GetWallet and GetBalance called one at a time between the operations that
\* change a wallet's balance or status, all within the lifetime of a cache
\* entry.
NextCache ==
    \E p \in SeqProcs :
        \/ \E op \in {"GetWallet", "GetBalance"}, w \in WalletIDs :
              GetWallet_Begin(p, op, w)
        \/ GetWallet_Find(p)
        \/ \E a \in LifecycleAmounts : Deposit_Begin(p, 1, a)
        \/ DepositSteps(p)
        \/ \E a \in LifecycleAmounts : Withdraw_Begin(p, 1, a)
        \/ WithdrawSteps(p)
        \/ \E a \in LifecycleAmounts : Transfer_Begin(p, 1, 2, a)
        \/ TransferSteps(p)
        \/ \E st \in WalletStatuses : UpdateWalletStatus_Begin(p, 1, st)
        \/ UpdateWalletStatus_Update(p)
        \/ \E a \in LifecycleAmounts : ProcessPayment_Begin(p, 1, a, "STRIPE")
        \/ ProcessPaymentSteps(p)
        \/ \E id \in 1..MaxTx : VerifyPayment_Begin(p, id)
        \/ VerifyPaymentSteps(p)
        \/ Return(p)

SpecCache == InitLifecycle /\ [][NextCache]_vars

\* C29: the wallet cache entry is invalidated on every write: a GetWallet or
\* GetBalance issued after the operations before it have returned, with no
\* other operation in flight, returns the wallet's stored balance and status,
\* never an older cached value.
C29_CacheInvalidated ==
    \A p \in SeqProcs :
        LET c == call[p] IN
        (/\ c.op \in {"GetWallet", "GetBalance"}
         /\ c.pc = "done"
         /\ c.err = "nil")
        => /\ c.wallet.Balance = wallets[c.w].Balance
           /\ c.wallet.Status = wallets[c.w].Status

\* C30: UpdateTransactionStatus(id, s), every store call succeeding: for a
\* stored transaction it returns success having set that transaction's status
\* to s, its amount, type and wallet references and every other transaction
\* being as they were; for an id that is not stored it fails with
\* TransactionNotFound and changes nothing.
C30_UpdateTransactionStatus ==
    \A p \in SeqProcs :
        LET c == call[p] IN
        (Returned(p, "UpdateTransactionStatus") /\ c.failed = {})
        => /\ wallets = c.before.wallets
           /\ payments = c.before.payments
           /\ IF c.tx.ID \in DOMAIN c.before.transactions
              THEN /\ c.err = "nil"
                   /\ transactions =
                         [c.before.transactions EXCEPT ![c.tx.ID].Status = c.status]
              ELSE /\ c.err = "ErrTransactionNotFound"
                   /\ transactions = c.before.transactions

\* A COMPLETED transaction has been set to FAILED while a second stored
\* transaction kept its record.
C30_Witness ==
    \E p \in SeqProcs :
        LET c == call[p] IN
        /\ Returned(p, "UpdateTransactionStatus")
        /\ c.err = "nil"
        /\ c.status = "FAILED"
        /\ c.before.transactions[c.tx.ID].Status = "COMPLETED"
        /\ transactions[c.tx.ID].Status = "FAILED"
        /\ Cardinality(DOMAIN transactions) = 2

\* ------------------------------------------------- transactions handed in
\* The records a caller hands to CreateTransaction with a status already
\* filled in, for stored and unknown source and destination wallets.
CallerStatuses == {"", "COMPLETED", "FAILED"}
CallerTransactions ==
    {[ID |-> id, WalletID |-> w, Type |-> ty, Amount |-> 1, Status |-> st,
      ToWalletID |-> to, CreatedAt |-> now] :
        id \in {0, 1}, w \in WalletInputs, ty \in TxTypes, st \in CallerStatuses,
        to \in {0} \cup WalletInputs}

NextCreate ==
    \E p \in SeqProcs :
        \/ \E t \in CallerTransactions : CreateTransaction_Begin(p, t)
        \/ CreateTransaction_FindTo(p)
        \/ CreateTransaction_Create(p)
        \/ \E a \in LifecycleAmounts : Deposit_Begin(p, 1, a)
        \/ DepositSteps(p)
        \/ Return(p)

SpecCreate == InitLifecycle /\ [][NextCreate]_vars

\* The destination CreateTransaction looks up: that of a TRANSFER record
\* which names one.
NamesDestination(c) == c.tx.Type = "TRANSFER" /\ c.to # 0

\* C31: CreateTransaction with amount > 0 for a stored source wallet (and,
\* for a TRANSFER naming a destination, a stored destination wallet), every
\* store call succeeding, stores the record under a non-zero id in status
\* PENDING whatever status the caller supplied, and changes no wallet; with
\* an unknown source or destination wallet it fails and stores nothing.
C31_CreateTransaction ==
    \A p \in SeqProcs :
        LET c == call[p]
            known == /\ Existed(c, c.w)
                     /\ NamesDestination(c) => Existed(c, c.to)
        IN
        (c.op = "CreateTransaction" /\ c.amt > 0)
        => /\ wallets = c.before.wallets
           /\ ~known => /\ transactions = c.before.transactions
                        /\ c.pc = "done" => c.err # "nil"
           /\ (known /\ c.pc = "done" /\ c.failed = {})
              => /\ c.err = "nil"
                 /\ c.tx.ID # 0
                 /\ c.tx.Status = "PENDING"
                 /\ DOMAIN transactions = (DOMAIN c.before.transactions) \cup {c.tx.ID}
                 /\ transactions[c.tx.ID] = c.tx
                 /\ \A id \in (DOMAIN c.before.transactions) \ {c.tx.ID} :
                       transactions[id] = c.before.transactions[id]

\* A TRANSFER record handed in as COMPLETED, with no id, between the two
\* stored wallets has been stored as PENDING.
C31_Witness ==
    \E p \in SeqProcs :
        LET c == call[p] IN
        /\ Returned(p, "CreateTransaction")
        /\ c.err = "nil"
        /\ c.status = "COMPLETED"
        /\ NamesDestination(c)
        /\ c.tx.ID \notin DOMAIN c.before.transactions
        /\ transactions[c.tx.ID].Status = "PENDING"

\* The outcome of the in-memory credit step of the Deposit call c: Credit on
\* the wallet the call read, which is the stored one when calls run one
\* after the other.
CreditOutcome(c) == Credit(c.before.wallets[c.w], c.amt)

\* C32: when the credit step of Deposit fails (Wallet.Credit returns an
\* error) and every store call succeeds, Deposit returns that error, the
\* stored status of its transaction is FAILED, and the stored balance is what
\* it was before the call.
C32_DepositCreditFails ==
    \A p \in SeqProcs :
        LET c == call[p] IN
        (/\ Returned(p, "Deposit")
         /\ c.tx.ID # 0
         /\ c.failed = {}
         /\ CreditOutcome(c).err # "nil")
        => /\ c.err = CreditOutcome(c).err
           /\ transactions[c.tx.ID].Status = "FAILED"
           /\ wallets[c.w].Balance = BalanceBefore(c, c.w)

\* C33: Transfer(w, w, a), source and destination being the same stored
\* wallet, with a > 0 and every store call succeeding, has left the stored
\* balance of w as it was when it returns.
C33_SelfTransfer ==
    \A p \in SeqProcs :
        LET c == call[p] IN
        (/\ Returned(p, "Transfer")
         /\ c.w = c.to
         /\ c.amt > 0
         /\ Existed(c, c.w)
         /\ c.failed = {})
        => wallets[c.w].Balance = BalanceBefore(c, c.w)

\* C34: Transfer(src, dst, a) between two distinct stored ACTIVE wallets of
\* one currency with a > balance(src) changes no stored wallet and fails;
\* when every store call succeeds it fails with InsufficientBalance and the
\* TRANSFER transaction it created is stored as FAILED.
C34_TransferInsufficient ==
    \A p \in SeqProcs :
        LET c == call[p] IN
        (/\ c.op = "Transfer"
         /\ c.w # c.to
         /\ Existed(c, c.w) /\ Existed(c, c.to)
         /\ c.before.wallets[c.w].CurrencyCode = c.before.wallets[c.to].CurrencyCode
         /\ ActiveBefore(c, c.w) /\ ActiveBefore(c, c.to)
         /\ c.amt > BalanceBefore(c, c.w))
        => /\ wallets = c.before.wallets
           /\ c.pc = "done"
              => /\ c.err # "nil"
                 /\ c.failed = {}
                    => /\ c.err = "ErrInsufficientBalance"
                       /\ CreatedBy(c) = {c.tx.ID}
                       /\ transactions[c.tx.ID].Type = "TRANSFER"
                       /\ transactions[c.tx.ID].Status = "FAILED"

\* A Transfer of 2 out of a wallet holding 1 has failed with
\* InsufficientBalance, its transaction stored as FAILED.
C34_Witness ==
    \E p \in SeqProcs :
        LET c == call[p] IN
        /\ Returned(p, "Transfer")
        /\ c.w # c.to
        /\ c.amt = 2
        /\ Existed(c, c.w) /\ BalanceBefore(c, c.w) = 1
        /\ c.err = "ErrInsufficientBalance"
        /\ c.tx.ID \in DOMAIN transactions
        /\ transactions[c.tx.ID].Status = "FAILED"
        /\ wallets = c.before.wallets

\* The call c is a VerifyPayment that found its payment PENDING, was told
\* COMPLETED by the gateway and had every store call succeed.
VerifiedCompleted(c) ==
    /\ c.op = "VerifyPayment"
    /\ c.pc = "done"
    /\ PaymentStatusBefore(c) = "PENDING"
    /\ c.status = "COMPLETED"
    /\ c.failed = {}

\* C35: when two VerifyPayment calls on the same PENDING payment, started
\* from the same stored state while the gateway reports COMPLETED, have both
\* returned, the stored balance of the payment's wallet is the balance
\* before the calls plus the transaction amount, once (the wallet being
\* one Wallet.Credit accepts the amount on).
C35_CreditedOnce ==
    LET c == call[1]
        d == call[2]
        tid == c.payment.TransactionID
    IN
    (/\ VerifiedCompleted(c) /\ VerifiedCompleted(d)
     /\ c.payment.ID = d.payment.ID
     /\ c.before = d.before
     /\ tid \in DOMAIN c.before.transactions)
    => LET t == c.before.transactions[tid] IN
       Credit(c.before.wallets[t.WalletID], t.Amount).err = "nil"
       => wallets[t.WalletID].Balance
             = c.before.wallets[t.WalletID].Balance + t.Amount

\* ------------------------------------------- one payment, calls side by side
\* Request tasks verifying and cancelling the waiting payment while the
\* sweep runs and time passes.
NextAgree ==
    \/ \E p \in Procs :
        \/ VerifyPayment_Begin(p, 1)
        \/ VerifyPaymentSteps(p)
        \/ CancelPayment_Begin(p, 1)
        \/ CancelPayment_Cancel(p)
        \/ CancelPayment_FailTx(p)
        \/ Reconcile_Begin(p)
        \/ Reconcile_Loop(p)
        \/ Return(p)
    \/ Tick

SpecAgree == InitConc /\ [][NextAgree]_vars

\* No call is in progress.
Quiescent == \A p \in Procs : call[p].pc \in {"idle", "done"}

\* C36: whenever no call is in progress and no store call has failed, a
\* stored payment that is CANCELLED or FAILED has a transaction that is not
\* COMPLETED and a wallet whose balance is what it was before any payment
\* was verified, and a stored payment that is COMPLETED has a transaction
\* that is not FAILED.
C36_PaymentAgrees ==
    (Quiescent /\ faults = 0)
    => \A id \in DOMAIN payments :
          LET pm == payments[id]
              t == transactions[pm.TransactionID]
          IN
          /\ pm.Status \in {"CANCELLED", "FAILED"}
             => /\ t.Status # "COMPLETED"
                /\ wallets[t.WalletID].Balance = MaxInitBalance
          /\ pm.Status = "COMPLETED" => t.Status # "FAILED"

\* ------------------------------------------- status changes beside traffic
\* The task that switches the first wallet between ACTIVE and INACTIVE, next
\* to the task running money calls on that wallet.
Admin == 2

TrafficNext(p) ==
    \/ \E a \in ConcAmounts : Deposit_Begin(p, 1, a)
    \/ DepositSteps(p)
    \/ \E a \in ConcAmounts : Withdraw_Begin(p, 1, a)
    \/ WithdrawSteps(p)
    \/ \E a \in ConcAmounts : Transfer_Begin(p, 1, 2, a)
    \/ TransferSteps(p)
    \/ VerifyPayment_Begin(p, 1)
    \/ VerifyPaymentSteps(p)
    \/ Return(p)

AdminNext(p) ==
    \/ \E st \in WalletStatuses : UpdateWalletStatus_Begin(p, 1, st)
    \/ UpdateWalletStatus_Update(p)
    \/ Return(p)

NextStatus == TrafficNext(Worker) \/ AdminNext(Admin)

SpecStatus == InitConc /\ [][NextStatus]_vars

\* C37: once UpdateWalletStatus(w, INACTIVE) has returned without error, and
\* until the next UpdateWalletStatus call on w begins, the stored status of w
\* is INACTIVE, whatever Deposit, Withdraw, Transfer or VerifyPayment call on
\* w was in flight or starts afterwards (no store call failing).
C37_StatusNotLost ==
    LET c == call[Admin] IN
    (/\ Returned(Admin, "UpdateWalletStatus")
     /\ c.status = "INACTIVE"
     /\ c.err = "nil"
     /\ faults = 0)
    => wallets[c.w].Status = "INACTIVE"

\* ------------------------------------------- wallets created side by side
\* Request tasks creating wallets at the same time.
NextCreateWallets ==
    \E p \in Procs :
        \/ \E u \in UserInputs, cur \in Currencies : CreateWallet_Begin(p, u, cur)
        \/ CreateWallet_FindWallets(p)
        \/ CreateWallet_Save(p)
        \/ Return(p)

SpecCreateWallets == Init /\ [][NextCreateWallets]_vars

\* C38: under any interleaving of CreateWallet calls for the same user and
\* currency, no store call failing, the store holds at most one wallet for
\* each user and currency.
C38_OneWalletConcurrently ==
    faults = 0
    => \A u \in UserInputs, cur \in Currencies :
          Cardinality(WalletsOf(wallets, u, cur)) <= 1

\* C39: a transaction record created with ID 0 is stored under an id no
\* stored record uses: the step that stores it leaves every record already
\* stored as it was, also when earlier records were created with ids of the
\* caller's choosing.
C39_FreshID ==
    [][\A p \in SeqProcs :
          (/\ call[p].pc = "create"
           /\ call[p].tx.ID = 0
           /\ call'[p].pc # "create")
          => \A id \in DOMAIN transactions :
                /\ id \in DOMAIN transactions'
                /\ transactions'[id] = transactions[id]]_vars

\* ------------------------------------------------------ KafkaEventConsumer
\* A task that is not blocked inside Start may call the consumer; the calls
\* that take the mutex wait while a Stop holds it.
ConsumerFree(p) == consumer.run[p].pc = "idle" /\ consumer.mu = 0

Subscribe(p, topic) ==
    /\ ConsumerFree(p)
    /\ consumer' =
         IF consumer.isRunning
         THEN Returns(consumer, p, "Subscribe", "ErrRunning")
         ELSE Returns([consumer EXCEPT !.handlers = @ \cup {topic}], p, "Subscribe", "nil")
    /\ UNCHANGED LedgerVars

SubscribeWithGroup(p, topic) ==
    /\ ConsumerFree(p)
    /\ consumer' =
         IF consumer.isRunning
         THEN Returns(consumer, p, "SubscribeWithGroup", "ErrRunning")
         ELSE Returns([consumer EXCEPT !.readers = @ \cup {topic},
                                       !.handlers = @ \cup {topic}],
                      p, "SubscribeWithGroup", "nil")
    /\ UNCHANGED LedgerVars

Unsubscribe(p, topic) ==
    /\ ConsumerFree(p)
    /\ consumer' =
         IF consumer.isRunning
         THEN Returns(consumer, p, "Unsubscribe", "ErrRunning")
         ELSE Returns([consumer EXCEPT !.handlers = @ \ {topic},
                                       !.readers = @ \ {topic}],
                      p, "Unsubscribe", "nil")
    /\ UNCHANGED LedgerVars

\* Start, the part under the mutex: refuse when running; else keep the
\* cancel function, set isRunning and create the missing readers.
Start_Begin(p) ==
    /\ ConsumerFree(p)
    /\ consumer' =
         IF consumer.isRunning
         THEN Returns(consumer, p, "Start", "ErrAlreadyRunning")
         ELSE [consumer EXCEPT !.cancel = p,
                               !.isRunning = TRUE,
                               !.readers = @ \cup consumer.handlers,
                               !.run[p] = [pc |-> "spawn", done |-> FALSE, workers |-> {}]]
    /\ UNCHANGED LedgerVars

\* Start, after the mutex is released: one goroutine per reader found in
\* c.readers at that moment.
Start_Spawn(p) ==
    /\ consumer.run[p].pc = "spawn"
    /\ consumer' = [consumer EXCEPT !.run[p].pc = "wait",
                                    !.run[p].workers = consumer.readers]
    /\ UNCHANGED LedgerVars

\* The context the caller passed to Start is cancelled, and with it the
\* consumer context derived from it.
CancelContext(p) ==
    /\ consumer.run[p].pc \in {"spawn", "wait"}
    /\ ~consumer.run[p].done
    /\ consumer' = [consumer EXCEPT !.run[p].done = TRUE]
    /\ UNCHANGED LedgerVars

\* consumeTopic returns once its context is done.
ConsumeTopic_Exit(p, topic) ==
    /\ consumer.run[p].pc = "wait"
    /\ consumer.run[p].done
    /\ topic \in consumer.run[p].workers
    /\ consumer' = [consumer EXCEPT !.run[p].workers = @ \ {topic}]
    /\ UNCHANGED LedgerVars

\* Start returns nil once the context is done and every goroutine is over.
Start_Return(p) ==
    /\ consumer.run[p].pc = "wait"
    /\ consumer.run[p].done
    /\ consumer.run[p].workers = {}
    /\ consumer' = [consumer EXCEPT !.run[p] = NoRun,
                                    !.last[p] = [op |-> "Start", err |-> "nil",
                                                 running |-> FALSE]]
    /\ UNCHANGED LedgerVars

\* Stop, from taking the mutex to the cancel call: refuse when not running,
\* else cancel the consumer context of the latest Start, keeping the mutex.
Stop_Begin(p) ==
    /\ ConsumerFree(p)
    /\ LET q == consumer.cancel
           cancelled ==
               IF q # 0 /\ consumer.run[q].pc # "idle"
               THEN [consumer EXCEPT !.run[q].done = TRUE]
               ELSE consumer
       IN
       consumer' =
         IF ~consumer.isRunning
         THEN Returns(consumer, p, "Stop", "ErrNotRunning")
         ELSE [cancelled EXCEPT !.mu = p]
    /\ UNCHANGED LedgerVars

\* Stop, the rest: close the readers (returning at the first Close that
\* fails), drop them, clear isRunning, release the mutex.
Stop_Finish(p) ==
    /\ consumer.mu = p
    /\ \E closeOK \in BOOLEAN :
       consumer' =
         IF consumer.readers # {} /\ ~closeOK
         THEN Returns([consumer EXCEPT !.mu = 0], p, "Stop", "ErrCloseReader")
         ELSE Returns([consumer EXCEPT !.readers = {}, !.isRunning = FALSE, !.mu = 0],
                      p, "Stop", "nil")
    /\ UNCHANGED LedgerVars

\* KafkaEventConsumer.IsRunning, called while no Stop holds the mutex.
IsRunning == consumer.isRunning

NextConsumer ==
    \E p \in Procs :
        \/ \E topic \in Topics : Subscribe(p, topic)
        \/ \E topic \in Topics : SubscribeWithGroup(p, topic)
        \/ \E topic \in Topics : Unsubscribe(p, topic)
        \/ Start_Begin(p)
        \/ Start_Spawn(p)
        \/ CancelContext(p)
        \/ \E topic \in Topics : ConsumeTopic_Exit(p, topic)
        \/ Start_Return(p)
        \/ Stop_Begin(p)
        \/ Stop_Finish(p)

SpecConsumer == InitLifecycle /\ [][NextConsumer]_vars

\* What the calls on the consumer have returned agrees with the running flag
\* they found: the subscription calls and Start fail when it was set, Stop
\* fails when it was not.
RejectedByFlag ==
    \A p \in Procs :
        LET r == consumer.last[p] IN
        /\ (r.op \in {"Subscribe", "SubscribeWithGroup", "Unsubscribe", "Start"}
            /\ r.running) => r.err # "nil"
        /\ (r.op = "Stop" /\ ~r.running) => r.err # "nil"

\* A Start call of task p returns in this step, no other Start call and no
\* Stop being in progress.
StartReturns(p) ==
    /\ consumer.run[p].pc = "wait"
    /\ consumer'.run[p].pc = "idle"
    /\ consumer.mu = 0
    /\ \A q \in Procs \ {p} : consumer.run[q].pc = "idle"

\* C40: Subscribe, SubscribeWithGroup, Unsubscribe and Start are rejected
\* while the consumer is running and Stop is rejected while it is not; and
\* when Start returns, after Stop or after the caller's context was
\* cancelled, IsRunning() is false.
C40_ConsumerLifecycle ==
    [][/\ RejectedByFlag'
       /\ \A p \in Procs : StartReturns(p) => ~IsRunning']_vars
====
